---- MODULE Spec2Model ----
(***************************************************************************)
(* BlockPass popup: vault session, PIN quick unlock, failed-attempt        *)
(* lockout and idle auto-lock, modelled from the popup script              *)
(* (src/unnamed/part_001) and the crypto module                            *)
(* (src/extension-backup/crypto.js); the IPFS backup module                *)
(* (src/extension/ipfs.js) and the audit contract                          *)
(* (src/blockchain/contracts/VaultAudit.sol).                              *)
(*                                                                         *)
(* Every async handler is a process p with a position pc[p] and locals     *)
(* loc[p]; one action is the code that runs between two awaits.  A storage *)
(* call takes effect when it is issued (chrome.storage serves requests in  *)
(* order), its result is delivered when the handler resumes.  Crypto calls *)
(* are computed from the arguments passed at the call and delivered at the *)
(* resume.                                                                 *)
(*                                                                         *)
(* Time is in milliseconds.  The clock is read relative to the present     *)
(* instant: Date.now() is the origin, and every timestamp the program      *)
(* keeps (pinLockoutUntil, the deadline of a pending timer) is held as its *)
(* distance from now; a clock step moves them all towards 0.  A timestamp  *)
(* in the past is held as 0, since the code only tests it against now.     *)
(* Time advances only while no handler is suspended (an await lasts far    *)
(* less than one clock step).                                              *)
(*                                                                         *)
(* Buttons can be clicked on the screen that shows them.  The buttons that *)
(* only call showScreen are folded into the click that follows them.       *)
(* lastActivityTime (written by trackActivity, never read) is kept with    *)
(* the timer: a pending timer records whether it was armed at the instant  *)
(* lastActivityTime holds.  alerted is the set of the alerts the latest     *)
(* step has shown to the user.                                             *)
(* A click is not tied to an activity signal: the document listeners see   *)
(* mousedown and keydown, and a control can be operated without either (an *)
(* option picked in a select that was left open).                          *)
(*                                                                         *)
(* Deleting password entries, the auto-hide timer of the view screen, the  *)
(* never-save list and the theme toggle are outside the model; vault       *)
(* carries the fields the session, the PIN, the timeout, the               *)
(* backup, the audit log and the password entries depend on.  window holds *)
(* window.pendingPasswordSave and window.currentPendingSave.               *)
(* sent is the set of payloads that the latest step handed to the backup   *)
(* server or to the audit contract.                                        *)
(*                                                                         *)
(* requireMnemonic is a history variable: the tenth failed attempt has     *)
(* removed the unlock token and neither recovery nor vault creation has    *)
(* stored one since.  loggedOut is the same for a completed log out, and   *)
(* wiped says that lockVault or clearSession has cleared the memory and no *)
(* handler has set sessionActive since.  loc[p].mnemonic is the phrase of  *)
(* the attempt p: the one typed, or the one inside the opened token.       *)
(* restarted says that the popup was closed and opened again and that no   *)
(* handler has ended since.                                                *)
(*                                                                         *)
(* userAuditLogs and totalLogs are the storage of the contract; a          *)
(* transaction is one step.  IPFS_CONFIG is the configuration object of    *)
(* ipfs.js; storage carries its items as ipfsConfig and ipfsLast (the      *)
(* items ipfs-last-cid and ipfs-last-backup, written together).  returned  *)
(* is the set of the results that the latest step has returned to the      *)
(* callers of ipfs.js and of the contract.  downloads is the set of files  *)
(* that export has written.                                                *)
(*                                                                         *)
(* Spec is the whole popup.  SpecUnlock, SpecChangePin, SpecSession,       *)
(* SpecBackup, SpecAudit and SpecRestart restrict the user to part of its  *)
(* controls.  SpecLockout opens the quick-unlock screen at any instant of  *)
(* a lockout, SpecReopen closes and reopens the popup there, SpecRecover   *)
(* is a row of recovery and quick-unlock attempts.  SpecEntries and        *)
(* SpecExport start in the session a quick unlock has opened.  SpecChain   *)
(* is the contract alone, SpecIpfs is ipfs.js alone.                       *)
(* SpecCrypto is encryptData and decryptData of crypto.js on strings and   *)
(* bytes, SpecToken the key derivations and the unlock token on strings    *)
(* and bytes, SpecNonce a row of encryptData calls; io holds their         *)
(* arguments and results (the popup specifications keep the symbolic       *)
(* encryptData and leave io alone).  The random generator is ideal: a      *)
(* value drawn for one purpose is not drawn for another, and SpecNonce     *)
(* draws no value twice.                                                   *)
(***************************************************************************)
EXTENDS Integers, FiniteSets, Sequences, TLC

VARIABLES vault, masterKey, sessionActive,
          sessionTimeoutTimer, failedPinAttempts, pinLockoutUntil,
          currentScreen, createStage, timers, storage, pc, loc,
          requireMnemonic, loggedOut, wiped, restarted, sent, alerted,
          currentPasswordId, window,
          userAuditLogs, totalLogs, IPFS_CONFIG, returned, downloads, io

vars == <<vault, masterKey, sessionActive,
          sessionTimeoutTimer, failedPinAttempts, pinLockoutUntil,
          currentScreen, createStage, timers, storage, pc, loc,
          requireMnemonic, loggedOut, wiped, restarted, sent, alerted,
          currentPasswordId, window,
          userAuditLogs, totalLogs, IPFS_CONFIG, returned, downloads, io>>

(* ------------------------------ bounds --------------------------------- *)

\* number of timer ids the runtime hands out before reusing a free one
MaxTimers == 2

\* number of handlers that are suspended at an await at the same time
MaxInFlight == 2

\* number of entries of vault.passwords
MaxPasswords == 1

\* number of UTF-16 code units of a plaintext handed to encryptData
MaxLen == 2

\* number of successful logVault transactions
MaxLogs == 3

(* --------------------------- input domains ----------------------------- *)

NULL == [kind |-> "null"]

\* phrases generateMnemonic can return / the user can type on recovery
Mnemonics == {"M1"}
MnemonicInputs == {"", "M1", "M2"}

\* values generateSalt can return
Salts == {"S1"}
PinSalts == {"PS1"}
Nonces == {"iv1"}

\* PINs the user can type; "12345" is not 6 characters long
PinInputs == {"111111", "222222", "12345"}

PinLength(pin) ==
    CASE pin = "" -> 0
      [] pin = "12345" -> 5
      [] OTHER -> 6

\* the auth-method radio the user selects
AuthChoices == {"pin"}

\* options of the session-timeout select, in minutes
TimeoutChoices == {0, 5, 15}

\* passwords typed into the add-password form or into a login form of a page
Passwords == {"pw1"}

\* values of backup-ip-input
BackupIPs == {"", "10.0.0.2"}

\* isBlockchainEnabled() and the fate of the transaction
LedgerFates == [enabled : BOOLEAN, ok : BOOLEAN]

Procs == {"gen", "cont", "rec", "qu1", "qu2", "logout", "lock", "timer",
          "select", "chpin", "sync", "audit", "savepw", "view",
          "autosave", "export", "import", "upload", "download"}

QuProcs == {"qu1", "qu2"}

\* the handlers that call saveVault
SaveProcs == {"cont", "select", "chpin", "sync", "audit", "savepw",
              "autosave", "import"}

(* ------------------------------ crypto --------------------------------- *)

\* Date.now(), the origin of the relative clock
DateNow == 0

\* PBKDF2(mnemonic, salt, 100000, SHA-256) -> AES-GCM key
deriveMasterKey(mnemonic, salt) ==
    [kind |-> "master", secret |-> mnemonic, salt |-> salt]

\* PBKDF2(pin, pinSalt, 50000, SHA-256) -> AES-GCM key
deriveUnlockKey(pin, pinSalt) ==
    [kind |-> "unlock", secret |-> pin, salt |-> pinSalt]

\* AES-GCM under key with the iv drawn by the caller of getRandomValues;
\* a null key makes subtle.encrypt reject
encryptData(plaintext, key, iv) ==
    IF key = NULL
    THEN [ok |-> FALSE]
    ELSE [ok |-> TRUE,
          ciphertext |-> [plain |-> plaintext, key |-> key, iv |-> iv],
          iv |-> iv]

\* AES-GCM open: the tag verifies only under the key and iv of the sealing
decryptData(ciphertext, ivBase64, key) ==
    IF key # NULL /\ ciphertext.key = key /\ ciphertext.iv = ivBase64
    THEN [ok |-> TRUE, plain |-> ciphertext.plain]
    ELSE [ok |-> FALSE]

encryptPassword(password, key, iv) == encryptData(password, key, iv)

decryptPassword(encryptedPassword, key) ==
    decryptData(encryptedPassword.ciphertext, encryptedPassword.iv, key)

encryptVault(vaultData, key, iv) == encryptData(vaultData, key, iv)

decryptVault(encryptedVault, key) ==
    decryptData(encryptedVault.ciphertext, encryptedVault.iv, key)

\* createUnlockToken whose salt for the PIN key is the salt of the vault
createUnlockTokenVaultSalt(mnemonic, vaultSalt, pin, pinSalt, iv) ==
    [encryptedToken |->
         encryptData([mnemonic |-> mnemonic, vaultSalt |-> vaultSalt,
                      created |-> DateNow],
                     deriveUnlockKey(pin, vaultSalt), iv),
     pinSalt |-> vaultSalt,
     created |-> DateNow]

\* pinSalt is the value generateSalt() returned to this call, iv the
\* value getRandomValues returned to its encryptData; created is the
\* instant of the call, which nothing reads
createUnlockToken(mnemonic, vaultSalt, pin, pinSalt, iv) ==
    [encryptedToken |->
         encryptData([mnemonic |-> mnemonic, vaultSalt |-> vaultSalt,
                      created |-> DateNow],
                     deriveUnlockKey(pin, pinSalt), iv),
     pinSalt |-> pinSalt,
     created |-> DateNow]

decryptUnlockToken(tokenObject, pin) ==
    decryptData(tokenObject.encryptedToken.ciphertext,
                tokenObject.encryptedToken.iv,
                deriveUnlockKey(pin, tokenObject.pinSalt))

\* ethers.utils.keccak256(ethers.utils.toUtf8Bytes(data))
keccak256(data) == [kind |-> "keccak256", of |-> data]

(* ------------------- encryptData / decryptData on bytes ---------------- *)

\* A JavaScript string is a sequence of UTF-16 code units, a buffer a
\* sequence of bytes.  A base64 string is a sequence of characters, each
\* held as its index 0..63 in the base64 alphabet, 64 for '=' and 65 for
\* an ASCII white space.

\* calls of encryptData in a row
MaxCalls == 3

\* code units of the plaintexts: 'a', U+FEFF, a high and a low surrogate
CodeUnits == {97, 65279, 55296, 56320}

Strings16 == UNION {[1..n -> CodeUnits] : n \in 0..MaxLen}

\* AES-GCM keys (CryptoKey objects) and 12-byte values of getRandomValues
CryptoKeys == {1, 2}
IVs == {[i \in 1..12 |-> b] : b \in {7, 200}}

\* UTF-8 bytes of a code point
Utf8(cp) ==
    IF cp < 128 THEN <<cp>>
    ELSE IF cp < 2048 THEN <<192 + (cp \div 64), 128 + (cp % 64)>>
    ELSE IF cp < 65536
    THEN <<224 + (cp \div 4096), 128 + ((cp \div 64) % 64), 128 + (cp % 64)>>
    ELSE <<240 + (cp \div 262144), 128 + ((cp \div 4096) % 64),
           128 + ((cp \div 64) % 64), 128 + (cp % 64)>>

\* TextEncoder.encode: the string is converted to scalar values (a
\* surrogate pair is one code point, a lone surrogate becomes U+FFFD) and
\* written as UTF-8
RECURSIVE encode(_)
encode(str) ==
    IF str = <<>>
    THEN <<>>
    ELSE LET u == Head(str)
             paired == /\ u \in 55296..56319
                       /\ Len(str) > 1
                       /\ str[2] \in 56320..57343
             cp == IF paired
                   THEN 65536 + (u - 55296) * 1024 + (str[2] - 56320)
                   ELSE IF u \in 55296..57343 THEN 65533 ELSE u
         IN  Utf8(cp) \o encode(IF paired THEN Tail(Tail(str)) ELSE Tail(str))

\* UTF-8 decoding to code units; a malformed byte gives U+FFFD
RECURSIVE Utf8Decode(_)
Utf8Decode(bytes) ==
    IF bytes = <<>>
    THEN <<>>
    ELSE LET b == Head(bytes)
             n == IF b < 128 THEN 1 ELSE IF b < 224 THEN 2
                  ELSE IF b < 240 THEN 3 ELSE 4
             wellFormed == /\ b \notin 128..191
                           /\ b < 248
                           /\ Len(bytes) >= n
                           /\ \A i \in 2..n : bytes[i] \in 128..191
         IN  IF ~wellFormed
             THEN <<65533>> \o Utf8Decode(Tail(bytes))
             ELSE LET cp == CASE n = 1 -> b
                              [] n = 2 -> (b - 192) * 64 + (bytes[2] - 128)
                              [] n = 3 -> (b - 224) * 4096
                                             + (bytes[2] - 128) * 64
                                             + (bytes[3] - 128)
                              [] OTHER -> (b - 240) * 262144
                                             + (bytes[2] - 128) * 4096
                                             + (bytes[3] - 128) * 64
                                             + (bytes[4] - 128)
                      units == IF cp < 65536
                               THEN <<cp>>
                               ELSE <<55296 + ((cp - 65536) \div 1024),
                                      56320 + ((cp - 65536) % 1024)>>
                  IN  units \o Utf8Decode(SubSeq(bytes, n + 1, Len(bytes)))

\* TextDecoder.decode ('utf-8', ignoreBOM false): a leading EF BB BF is
\* dropped, the rest is decoded
decode(bytes) ==
    IF Len(bytes) >= 3 /\ SubSeq(bytes, 1, 3) = <<239, 187, 191>>
    THEN Utf8Decode(SubSeq(bytes, 4, Len(bytes)))
    ELSE Utf8Decode(bytes)

\* btoa of the bytes
RECURSIVE arrayBufferToBase64(_)
arrayBufferToBase64(buffer) ==
    IF buffer = <<>>
    THEN <<>>
    ELSE IF Len(buffer) = 1
    THEN <<buffer[1] \div 4, (buffer[1] % 4) * 16, 64, 64>>
    ELSE IF Len(buffer) = 2
    THEN <<buffer[1] \div 4,
           (buffer[1] % 4) * 16 + (buffer[2] \div 16),
           (buffer[2] % 16) * 4, 64>>
    ELSE <<buffer[1] \div 4,
           (buffer[1] % 4) * 16 + (buffer[2] \div 16),
           (buffer[2] % 16) * 4 + (buffer[3] \div 64),
           buffer[3] % 64>>
             \o arrayBufferToBase64(SubSeq(buffer, 4, Len(buffer)))

\* the bytes of a sequence of 6-bit values; the bits left over at the end
\* (4 of 12, 2 of 18) are discarded
RECURSIVE FromSextets(_)
FromSextets(d) ==
    IF Len(d) < 2
    THEN <<>>
    ELSE IF Len(d) = 2
    THEN <<d[1] * 4 + (d[2] \div 16)>>
    ELSE IF Len(d) = 3
    THEN <<d[1] * 4 + (d[2] \div 16), (d[2] % 16) * 16 + (d[3] \div 4)>>
    ELSE <<d[1] * 4 + (d[2] \div 16), (d[2] % 16) * 16 + (d[3] \div 4),
           (d[3] % 4) * 64 + d[4]>> \o FromSextets(SubSeq(d, 5, Len(d)))

\* atob of the string: white space is removed, one or two '=' closing a
\* string of 4n characters are removed, a length of 4n+1 or a character
\* outside the alphabet throws
base64ToArrayBuffer(base64) ==
    LET stripped == SelectSeq(base64, LAMBDA c : c # 65)
        n == Len(stripped)
        data == IF n % 4 = 0 /\ n > 0 /\ stripped[n] = 64
                THEN IF stripped[n - 1] = 64
                     THEN SubSeq(stripped, 1, n - 2)
                     ELSE SubSeq(stripped, 1, n - 1)
                ELSE stripped
    IN  IF Len(data) % 4 = 1 \/ \E i \in DOMAIN data : data[i] > 63
        THEN [ok |-> FALSE]
        ELSE [ok |-> TRUE, bytes |-> FromSextets(data)]

\* AES-GCM is an ideal authenticated cipher.  crypto.subtle.encrypt
\* returns Len(data) + 16 bytes: the data under a key stream fixed by key
\* and iv, then the tag.  crypto.subtle.decrypt opens exactly what encrypt
\* has produced, under the key and the iv of that call: log is the set of
\* the calls of encrypt so far.
subtleEncrypt(key, iv, data) ==
    [i \in 1..Len(data) |-> (data[i] + key * 16 + iv[1]) % 256]
        \o <<key>> \o iv \o <<Len(data) % 256, 0, 0>>

subtleDecrypt(key, iv, encryptedData, log) ==
    LET made == {e \in log : /\ e.key = key
                             /\ e.iv = iv
                             /\ e.encryptedData = encryptedData}
    IN  IF made = {}
        THEN [ok |-> FALSE]
        ELSE [ok |-> TRUE, data |-> (CHOOSE e \in made : TRUE).data]

\* encryptData that seals under one iv kept for all its calls
encryptDataB64FixedIv(plaintext, key, iv) ==
    LET fixed == [i \in 1..12 |-> 0] IN
    [ciphertext |-> arrayBufferToBase64(subtleEncrypt(key, fixed,
                                                       encode(plaintext))),
     iv |-> arrayBufferToBase64(fixed)]

\* encryptData with the iv that getRandomValues returned
encryptDataB64(plaintext, key, iv) ==
    [ciphertext |-> arrayBufferToBase64(subtleEncrypt(key, iv,
                                                       encode(plaintext))),
     iv |-> arrayBufferToBase64(iv)]

\* decryptData: the plaintext, or the error thrown by atob or by decrypt
decryptDataB64(ciphertext, ivBase64, key, log) ==
    LET encryptedData == base64ToArrayBuffer(ciphertext)
        iv == base64ToArrayBuffer(ivBase64)
    IN  IF ~encryptedData.ok \/ ~iv.ok
        THEN [ok |-> FALSE]
        ELSE LET decryptedData == subtleDecrypt(key, iv.bytes,
                                                encryptedData.bytes, log)
             IN  IF decryptedData.ok
                 THEN [ok |-> TRUE, plaintext |-> decode(decryptedData.data)]
                 ELSE [ok |-> FALSE]

\* the strings a caller can pass where base64 was returned: base64 itself,
\* base64 with a white space appended, without its padding, and with one
\* bit of its first or of its last character flipped
Altered(base64) ==
    LET n == Len(base64)
        last == CHOOSE i \in 1..n :
                    base64[i] # 64 /\ \A j \in (i + 1)..n : base64[j] = 64
        flip(v, k) == IF (v \div (2 ^ k)) % 2 = 1
                      THEN v - 2 ^ k ELSE v + 2 ^ k
    IN  {base64, base64 \o <<65>>, SubSeq(base64, 1, last)}
            \cup {[base64 EXCEPT ![i] = flip(@, k)] :
                      i \in {1, last}, k \in 0..5}

\* getRandomValues(new Uint8Array(12)) of an ideal generator, which
\* returns no value twice: the value of the call that follows drawn
\* earlier calls
getRandomValues(drawn) ==
    [i \in 1..12 |-> IF i = 12 THEN drawn % 256
                     ELSE IF i = 11 THEN (drawn \div 256) % 256
                     ELSE 0]

(* ------------- key derivation and the unlock token on bytes ------------ *)

\* code units of the secrets and PINs: '1', U+0000, '"', '\', a high and
\* a low surrogate
SecretUnits == {49, 0, 34, 92, 55296, 56320}

\* the strings passed as recovery phrase, as vault salt and as PIN
MnemonicTexts == UNION {[1..n -> SecretUnits] : n \in 0..MaxLen}
VaultSaltTexts == UNION {[1..n -> SecretUnits] : n \in 0..(MaxLen - 1)}
PinTexts ==
    UNION {[1..n -> SecretUnits \ {34, 92}] : n \in 0..MaxLen}

\* generateSalt(): base64 of 16 bytes of getRandomValues, here 'PS1', 'PS2'
PinSaltTexts == {<<80, 83, 49>>, <<80, 83, 50>>}

\* HMAC keys its hash with the password: a password longer than the
\* block of 64 bytes is hashed first, a shorter one is padded with zero
\* bytes, so zero bytes at its end do not change the key
RECURSIVE HmacKey(_)
HmacKey(password) ==
    IF Len(password) > 64
    THEN <<"sha256", password>>
    ELSE IF password # <<>> /\ password[Len(password)] = 0
    THEN HmacKey(SubSeq(password, 1, Len(password) - 1))
    ELSE password

\* importKey('raw', bytes, PBKDF2) and deriveKey(PBKDF2, SHA-256): both
\* accept a password and a salt of any length, the empty ones included;
\* the bits are a function of the HMAC key, the salt and the iterations
pbkdf2(password, salt, iterations) ==
    [password |-> HmacKey(password), salt |-> salt,
     iterations |-> iterations]

deriveMasterKeyBytes(mnemonic, salt) ==
    [ok |-> TRUE,
     key |-> [kind |-> "master",
              bits |-> pbkdf2(encode(mnemonic), encode(salt), 100000)]]

deriveUnlockKeyBytes(pin, pinSalt) ==
    [ok |-> TRUE,
     key |-> [kind |-> "unlock",
              bits |-> pbkdf2(encode(pin), encode(pinSalt), 50000)]]

\* the code unit of a hexadecimal digit, in lower case
HexDigit(d) == IF d < 10 THEN 48 + d ELSE 87 + d

\* the value of a hexadecimal digit, -1 for another code unit
HexValue(u) ==
    IF u \in 48..57 THEN u - 48
    ELSE IF u \in 97..102 THEN u - 87
    ELSE IF u \in 65..70 THEN u - 55
    ELSE -1

\* JSON.stringify of a string: quotes, the short escapes, \uXXXX for the
\* other control characters and for a lone surrogate
RECURSIVE QuoteJSONString(_)
QuoteJSONString(str) ==
    LET Escaped(u) ==
            IF u = 34 \/ u = 92 THEN <<92, u>>
            ELSE IF u = 8 THEN <<92, 98>>
            ELSE IF u = 9 THEN <<92, 116>>
            ELSE IF u = 10 THEN <<92, 110>>
            ELSE IF u = 12 THEN <<92, 102>>
            ELSE IF u = 13 THEN <<92, 114>>
            ELSE <<92, 117, HexDigit(u \div 4096), HexDigit((u \div 256) % 16),
                   HexDigit((u \div 16) % 16), HexDigit(u % 16)>>
        RECURSIVE Body(_)
        Body(s) ==
            IF s = <<>>
            THEN <<>>
            ELSE LET u == Head(s)
                     paired == /\ u \in 55296..56319
                               /\ Len(s) > 1
                               /\ s[2] \in 56320..57343
                 IN  IF paired
                     THEN <<u, s[2]>> \o Body(Tail(Tail(s)))
                     ELSE IF u \in {34, 92} \/ u < 32 \/ u \in 55296..57343
                     THEN Escaped(u) \o Body(Tail(s))
                     ELSE <<u>> \o Body(Tail(s))
    IN  <<34>> \o Body(str) \o <<34>>

\* the decimal digits of a natural number
RECURSIVE NumberToString(_)
NumberToString(n) ==
    IF n < 10
    THEN <<48 + n>>
    ELSE NumberToString(n \div 10) \o <<48 + (n % 10)>>

\* the property names of the token data: mnemonic, vaultSalt, created
NameMnemonic == <<109, 110, 101, 109, 111, 110, 105, 99>>
NameVaultSalt == <<118, 97, 117, 108, 116, 83, 97, 108, 116>>
NameCreated == <<99, 114, 101, 97, 116, 101, 100>>

\* JSON.stringify({mnemonic, vaultSalt, created})
stringifyTokenData(mnemonic, vaultSalt, created) ==
    <<123>> \o QuoteJSONString(NameMnemonic) \o <<58>>
        \o QuoteJSONString(mnemonic) \o <<44>>
        \o QuoteJSONString(NameVaultSalt) \o <<58>>
        \o QuoteJSONString(vaultSalt) \o <<44>>
        \o QuoteJSONString(NameCreated) \o <<58>>
        \o NumberToString(created) \o <<125>>

\* JSON.parse of a string literal that opens before position i: its value
\* and the position after its closing quote
RECURSIVE ParseJSONString(_, _, _)
ParseJSONString(text, i, acc) ==
    IF i > Len(text) \/ text[i] < 32
    THEN [ok |-> FALSE]
    ELSE IF text[i] = 34
    THEN [ok |-> TRUE, value |-> acc, next |-> i + 1]
    ELSE IF text[i] # 92
    THEN ParseJSONString(text, i + 1, Append(acc, text[i]))
    ELSE IF i + 1 > Len(text)
    THEN [ok |-> FALSE]
    ELSE LET e == text[i + 1] IN
         IF e \in {34, 92, 47}
         THEN ParseJSONString(text, i + 2, Append(acc, e))
         ELSE IF e \in {98, 102, 110, 114, 116}
         THEN ParseJSONString(text, i + 2,
                  Append(acc, CASE e = 98 -> 8 [] e = 102 -> 12
                                [] e = 110 -> 10 [] e = 114 -> 13
                                [] e = 116 -> 9))
         ELSE IF /\ e = 117
                 /\ i + 5 <= Len(text)
                 /\ \A k \in 2..5 : HexValue(text[i + k]) >= 0
         THEN ParseJSONString(text, i + 6,
                  Append(acc, HexValue(text[i + 2]) * 4096
                                  + HexValue(text[i + 3]) * 256
                                  + HexValue(text[i + 4]) * 16
                                  + HexValue(text[i + 5])))
         ELSE [ok |-> FALSE]

\* JSON.parse of a natural number that starts at position i
RECURSIVE ParseJSONNumber(_, _, _)
ParseJSONNumber(text, i, acc) ==
    IF i <= Len(text) /\ text[i] \in 48..57
    THEN ParseJSONNumber(text, i + 1, acc * 10 + (text[i] - 48))
    ELSE [ok |-> TRUE, value |-> acc, next |-> i]

\* JSON.parse of the members of an object from position i: name, colon,
\* a string or a number, then a comma or the closing brace that ends the
\* text; a name written twice keeps its last value
RECURSIVE ParseJSONMembers(_, _, _)
ParseJSONMembers(text, i, obj) ==
    IF i > Len(text) \/ text[i] # 34
    THEN [ok |-> FALSE]
    ELSE LET name == ParseJSONString(text, i + 1, <<>>) IN
         IF ~name.ok \/ name.next + 1 > Len(text) \/ text[name.next] # 58
         THEN [ok |-> FALSE]
         ELSE LET j == name.next + 1
                  v == IF text[j] = 34
                       THEN ParseJSONString(text, j + 1, <<>>)
                       ELSE IF text[j] \in 48..57
                       THEN ParseJSONNumber(text, j, 0)
                       ELSE [ok |-> FALSE]
              IN  IF ~v.ok \/ v.next > Len(text)
                  THEN [ok |-> FALSE]
                  ELSE LET more == (name.value :> v.value) @@ obj IN
                       IF text[v.next] = 44
                       THEN ParseJSONMembers(text, v.next + 1, more)
                       ELSE IF text[v.next] = 125 /\ v.next = Len(text)
                       THEN [ok |-> TRUE, value |-> more]
                       ELSE [ok |-> FALSE]

\* JSON.parse of the texts stringifyTokenData writes: an object of string
\* and number members without white space; any other text is a SyntaxError
parseTokenData(text) ==
    IF Len(text) < 2 \/ text[1] # 123
    THEN [ok |-> FALSE]
    ELSE IF text = <<123, 125>>
    THEN [ok |-> TRUE, value |-> << >>]
    ELSE ParseJSONMembers(text, 2, << >>)

\* createUnlockToken with the pinSalt of generateSalt, the iv of
\* getRandomValues and the instant of Date.now(): encryptData encodes the
\* token data and seals the bytes
createUnlockTokenBytes(mnemonic, vaultSalt, pin, pinSalt, iv, now) ==
    LET unlockKey == deriveUnlockKeyBytes(pin, pinSalt).key
        tokenData == stringifyTokenData(mnemonic, vaultSalt, now)
    IN  [encryptedToken |-> encryptData(encode(tokenData), unlockKey, iv),
         pinSalt |-> pinSalt,
         created |-> now]

\* decryptUnlockToken: the parsed token data, or the error decryptData or
\* JSON.parse throws
decryptUnlockTokenBytes(tokenObject, pin) ==
    LET unlockKey == deriveUnlockKeyBytes(pin, tokenObject.pinSalt).key
        opened == decryptData(tokenObject.encryptedToken.ciphertext,
                              tokenObject.encryptedToken.iv, unlockKey)
    IN  IF opened.ok
        THEN parseTokenData(decode(opened.plain))
        ELSE [ok |-> FALSE]

(* ----------------------- VaultAudit.sol and ipfs.js --------------------- *)

\* accounts that send transactions to the contract
Addresses == {"A1", "A2"}

\* bytes32 values of _hash; 0 is bytes32(0)
Hashes == {0, 1, 2}

\* values of _operation; "" is the string of length 0
Operations == {"", "save", "update"}

\* block.timestamp of the blocks that hold the transactions
BlockTimes == {0, 1}

RECURSIVE CountLogs(_, _)
CountLogs(logs, users) ==
    IF users = {}
    THEN 0
    ELSE LET u == CHOOSE a \in users : TRUE
         IN  Len(logs[u]) + CountLogs(logs, users \ {u})

RECURSIVE LatestBlockTime(_, _)
LatestBlockTime(logs, users) ==
    IF users = {}
    THEN 0
    ELSE LET u == CHOOSE a \in users : TRUE
             rest == LatestBlockTime(logs, users \ {u})
             last == IF logs[u] = <<>> THEN 0
                     ELSE logs[u][Len(logs[u])].timestamp
         IN  IF last >= rest THEN last ELSE rest

\* what the transaction leaves behind: its call data, whether it reverted
\* and the event it emitted
Receipt(msgSender, _hash, _operation, reverted, events) ==
    [fn |-> "logVault", sender |-> msgSender, hash |-> _hash,
     operation |-> _operation, reverted |-> reverted, events |-> events]

\* logVault that does not count the entry
logVaultUncounted(s, msgSender, _hash, _operation, blockTimestamp) ==
    IF _hash = 0 \/ _operation = ""
    THEN [s EXCEPT !.returned = {Receipt(msgSender, _hash, _operation,
                                         TRUE, <<>>)}]
    ELSE LET newLog == [vaultHash |-> _hash, user |-> msgSender,
                        timestamp |-> blockTimestamp,
                        operation |-> _operation]
         IN  [s EXCEPT !.userAuditLogs[msgSender] = Append(@, newLog),
                       !.returned = {Receipt(msgSender, _hash, _operation,
                                             FALSE, <<newLog>>)}]

\* logVault as one transaction: a failed require reverts it, and the
\* state is as before.  totalLogs is a uint256 whose checked increment
\* cannot overflow below 2^256 entries.
logVault(s, msgSender, _hash, _operation, blockTimestamp) ==
    IF _hash = 0
    THEN [s EXCEPT !.returned = {Receipt(msgSender, _hash, _operation,
                                         TRUE, <<>>)}]
    ELSE IF _operation = ""
    THEN [s EXCEPT !.returned = {Receipt(msgSender, _hash, _operation,
                                         TRUE, <<>>)}]
    ELSE LET newLog == [vaultHash |-> _hash, user |-> msgSender,
                        timestamp |-> blockTimestamp,
                        operation |-> _operation]
         IN  [s EXCEPT !.userAuditLogs[msgSender] = Append(@, newLog),
                       !.totalLogs = @ + 1,
                       !.returned = {Receipt(msgSender, _hash, _operation,
                                             FALSE, <<newLog>>)}]

\* IPFS_CONFIG as the script defines it
DefaultConfig == [enabled |-> FALSE, pinataJWT |-> ""]

\* initIPFSConfig: Object.assign(IPFS_CONFIG, result['ipfs-config'])
initIPFSConfig(store) ==
    IF store.ipfsConfig # NULL THEN store.ipfsConfig ELSE DefaultConfig

(* ------------------------- the program state --------------------------- *)

LocInit == [pin |-> "", newPin |-> "", mnemonic |-> "", password |-> "",
            token |-> NULL, stored |-> NULL, dk |-> NULL, out |-> NULL,
            lockout |-> NULL, form |-> NULL, entry |-> NULL,
            file |-> NULL, cid |-> NULL]

Cur == [vault |-> vault, masterKey |-> masterKey,
        sessionActive |-> sessionActive,
        sessionTimeoutTimer |-> sessionTimeoutTimer,
        failedPinAttempts |-> failedPinAttempts,
        pinLockoutUntil |-> pinLockoutUntil,
        currentScreen |-> currentScreen, createStage |-> createStage,
        now |-> DateNow, timers |-> timers, storage |-> storage,
        pc |-> pc, loc |-> loc, requireMnemonic |-> requireMnemonic,
        loggedOut |-> loggedOut, wiped |-> wiped, restarted |-> restarted,
        sent |-> {}, alerted |-> {},
        currentPasswordId |-> currentPasswordId, window |-> window,
        userAuditLogs |-> userAuditLogs, totalLogs |-> totalLogs,
        IPFS_CONFIG |-> IPFS_CONFIG, returned |-> {},
        downloads |-> downloads, io |-> io]

Commit(s) ==
    /\ vault' = s.vault
    /\ masterKey' = s.masterKey
    /\ sessionActive' = s.sessionActive
    /\ sessionTimeoutTimer' = s.sessionTimeoutTimer
    /\ failedPinAttempts' = s.failedPinAttempts
    /\ pinLockoutUntil' = s.pinLockoutUntil
    /\ currentScreen' = s.currentScreen
    /\ createStage' = s.createStage
    /\ timers' = s.timers
    /\ storage' = s.storage
    /\ pc' = s.pc
    /\ loc' = s.loc
    /\ requireMnemonic' = s.requireMnemonic
    /\ loggedOut' = s.loggedOut
    /\ wiped' = s.wiped
    /\ restarted' = s.restarted
    /\ sent' = s.sent
    /\ alerted' = s.alerted
    /\ currentPasswordId' = s.currentPasswordId
    /\ window' = s.window
    /\ userAuditLogs' = s.userAuditLogs
    /\ totalLogs' = s.totalLogs
    /\ IPFS_CONFIG' = s.IPFS_CONFIG
    /\ returned' = s.returned
    /\ downloads' = s.downloads
    /\ io' = s.io

\* chrome.storage.local of a profile that never ran the extension
EmptyStorage == [vault |-> NULL, token |-> NULL, pendingSave |-> NULL,
                 ipfsConfig |-> NULL, ipfsLast |-> NULL]

\* chrome.storage.local as an earlier run of the popup left it: a vault
\* created with the PIN "111111" and its unlock token
InstalledStorage ==
    LET encryptedVault ==
            encryptVault([authMethod |-> "pin", pin |-> "111111",
                          passwords |-> <<>>, backupIP |-> "",
                          auditEnabled |-> FALSE,
                          salt |-> "S1", sessionTimeout |-> 15],
                         deriveMasterKey("M1", "S1"), "iv1")
    IN  [vault |-> [ciphertext |-> encryptedVault.ciphertext,
                    iv |-> encryptedVault.iv, salt |-> "S1"],
         token |-> createUnlockToken("M1", "S1", "111111", "PS1", "iv1"),
         pendingSave |-> NULL, ipfsConfig |-> NULL, ipfsLast |-> NULL]

\* the screen the DOMContentLoaded handler shows
DOMContentLoaded(store) ==
    IF store.vault # NULL /\ store.token # NULL
    THEN "quick-unlock-screen"
    ELSE IF store.vault # NULL
    THEN "recover-vault-screen"
    ELSE "onboarding-screen"

\* the popup has been opened and its DOMContentLoaded handler has run
\* 'let vault = {...}' as the script starts
InitVault ==
    [mnemonic |-> "", authMethod |-> "biometric", pin |-> "",
     passwords |-> <<>>, backupIP |-> "", auditEnabled |-> FALSE,
     salt |-> "", sessionTimeout |-> 15]

\* window.pendingPasswordSave and window.currentPendingSave after the
\* DOMContentLoaded handler: the pending save is kept if a vault exists
WindowLoaded(store) ==
    [pendingPasswordSave |-> IF store.vault # NULL
                             THEN store.pendingSave ELSE NULL,
     currentPendingSave |-> NULL]

\* the popup opens attempts failed PIN attempts and until milliseconds
\* before the end of a lockout
InitRest(attempts, until) ==
    /\ vault = InitVault
    /\ masterKey = NULL
    /\ sessionActive = FALSE
    /\ sessionTimeoutTimer = 0
    /\ failedPinAttempts = attempts
    /\ pinLockoutUntil = until
    /\ createStage = "generate"
    /\ timers = <<>>
    /\ pc = [p \in Procs |-> "idle"]
    /\ loc = [p \in Procs |-> LocInit]
    /\ requireMnemonic = FALSE
    /\ loggedOut = FALSE
    /\ wiped = FALSE
    /\ restarted = FALSE
    /\ sent = {}
    /\ alerted = {}
    /\ currentPasswordId = NULL
    /\ userAuditLogs = [a \in Addresses |-> <<>>]
    /\ totalLogs = 0
    /\ returned = {}
    /\ downloads = {}

\* the profile is new, or an earlier run has left a vault and a token
InitAt(attempts, until) ==
    /\ storage \in {EmptyStorage, InstalledStorage}
    /\ currentScreen = DOMContentLoaded(storage)
    /\ window = WindowLoaded(storage)
    /\ IPFS_CONFIG = initIPFSConfig(storage)
    /\ InitRest(attempts, until)

InitPopup == InitAt(0, 0)

Init == InitPopup /\ io = NULL

\* milliseconds a lockout can have left when quick-unlock-btn is clicked
LockoutLeft == {0, 1, 999, 1000, 1001, 29999, 30000}

\* the quick-unlock screen after some failed attempts, in or after the
\* lockout they have set
InitLockout ==
    /\ \E attempts \in 0..9, until \in LockoutLeft :
           /\ until > 0 => attempts >= 3
           /\ InitAt(attempts, until)
    /\ storage = InstalledStorage
    /\ io = NULL

\* a caller of crypto.js holds a plaintext and a key
InitCrypto ==
    /\ InitPopup
    /\ storage = EmptyStorage
    /\ io \in [stage : {"input"}, plaintext : Strings16, key : CryptoKeys]

\* a caller of crypto.js holds a recovery phrase, a vault salt and a PIN
InitToken ==
    /\ InitPopup
    /\ storage = EmptyStorage
    /\ io \in [stage : {"input"}, mnemonic : MnemonicTexts,
               vaultSalt : VaultSaltTexts, pin : PinTexts]

\* a caller of crypto.js before its first encryptData
InitNonce ==
    /\ InitPopup
    /\ storage = EmptyStorage
    /\ io = [stage |-> "calls", drawn |-> 0, log |-> << >>]

\* the handler p has run to its end
Done(s, p) ==
    [s EXCEPT !.pc[p] = "idle", !.loc[p] = LocInit, !.restarted = FALSE]

Idle == \A p \in Procs : pc[p] = "idle"

\* one more handler may be started
CanStart == Cardinality({p \in Procs : pc[p] # "idle"}) < MaxInFlight

showScreen(s, screenId) == [s EXCEPT !.currentScreen = screenId]

\* alert blocks the handler until it is dismissed and changes no state of
\* the script; alerted records what the user is shown.  seconds is the
\* number inside the text, 0 for a text without one
IncorrectPin ==
    "Incorrect PIN. Please try again or use your recovery phrase."
NoVaultFound ==
    "No vault found with this recovery phrase. Please check and try again."
FailedToDecrypt ==
    "Failed to decrypt vault. Please check your recovery phrase."

alertSeconds(s, message, seconds) ==
    [s EXCEPT !.alerted = @ \cup {[text |-> message, seconds |-> seconds]}]

alert(s, message) == alertSeconds(s, message, 0)

(* ------------------- session timeout & activity ------------------------ *)

\* clearTimeout: a pending timer is dropped, any other id is ignored
clearTimeout(s, id) ==
    [s EXCEPT !.timers = [t \in (DOMAIN s.timers) \ {id} |-> s.timers[t]]]

\* the id setTimeout returns: the first one not in use
FreshTimer(s) ==
    CHOOSE i \in 1..MaxTimers :
        /\ i \notin DOMAIN s.timers
        /\ \A j \in 1..(i - 1) : j \in DOMAIN s.timers

setTimeout(s, id, delay) ==
    [s EXCEPT !.timers = [t \in (DOMAIN s.timers) \cup {id} |->
                             IF t = id
                             THEN [deadline |-> s.now + delay,
                                   delay |-> delay, activity |-> FALSE]
                             ELSE s.timers[t]]]

\* resetSessionTimeout that leaves the pending timer in place
resetSessionTimeoutNoClear(s) ==
    LET timeoutMs == s.vault.sessionTimeout * 60 * 1000
        id == FreshTimer(s)
    IN  IF ~s.sessionActive \/ s.vault.sessionTimeout = 0
        THEN s
        ELSE [setTimeout(s, id, timeoutMs) EXCEPT !.sessionTimeoutTimer = id]

resetSessionTimeout(s) ==
    LET s1 == IF s.sessionTimeoutTimer # 0
              THEN clearTimeout(s, s.sessionTimeoutTimer)
              ELSE s
        timeoutMs == s1.vault.sessionTimeout * 60 * 1000
        id == FreshTimer(s1)
    IN  IF ~s1.sessionActive \/ s1.vault.sessionTimeout = 0
        THEN s1
        ELSE [setTimeout(s1, id, timeoutMs) EXCEPT !.sessionTimeoutTimer = id]

\* 'lastActivityTime = Date.now()': the timer armed next is armed at
\* that instant
trackActivity(s) ==
    LET s1 == resetSessionTimeout(s) IN
    IF ~s.sessionActive
    THEN s
    ELSE IF s1.sessionTimeoutTimer \in DOMAIN s1.timers
    THEN [s1 EXCEPT !.timers[s1.sessionTimeoutTimer].activity = TRUE]
    ELSE s1

startActivityTracking(s) == resetSessionTimeout(s)

stopActivityTrackingKeepTimer(s) ==
    [s EXCEPT !.sessionTimeoutTimer = 0]

stopActivityTracking(s) ==
    IF s.sessionTimeoutTimer # 0
    THEN [clearTimeout(s, s.sessionTimeoutTimer)
              EXCEPT !.sessionTimeoutTimer = 0]
    ELSE s

(* ------------------- rate limiting of PIN attempts --------------------- *)

Ceil(a, b) == (a + b - 1) \div b

\* checkPinLockout that rounds the remaining time down
checkPinLockoutFloor(s) ==
    IF s.pinLockoutUntil > s.now
    THEN [locked |-> TRUE,
          remainingTime |-> (s.pinLockoutUntil - s.now) \div 1000]
    ELSE [locked |-> FALSE, remainingTime |-> 0]

checkPinLockout(s) ==
    IF s.pinLockoutUntil > s.now
    THEN [locked |-> TRUE,
          remainingTime |-> Ceil(s.pinLockoutUntil - s.now, 1000)]
    ELSE [locked |-> FALSE, remainingTime |-> 0]

\* the value that stands for the string 'REQUIRE_MNEMONIC'
REQUIRE_MNEMONIC == 0 - 1

calculateLockoutDurationFlat(attempts) ==
    IF attempts >= 10 THEN REQUIRE_MNEMONIC
    ELSE IF attempts >= 3 THEN 30 * 1000
    ELSE 0

calculateLockoutDuration(attempts) ==
    IF attempts >= 10 THEN REQUIRE_MNEMONIC
    ELSE IF attempts >= 5 THEN 5 * 60 * 1000
    ELSE IF attempts >= 3 THEN 30 * 1000
    ELSE 0

resetPinAttempts(s) ==
    [s EXCEPT !.failedPinAttempts = 0, !.pinLockoutUntil = 0]

clearSessionKeepToken(s) ==
    resetPinAttempts([stopActivityTracking(s)
                          EXCEPT !.vault.mnemonic = "", !.vault.pin = "",
                                 !.masterKey = NULL, !.sessionActive = FALSE,
                                 !.wiped = TRUE])

\* clearSession up to its await: the removal is issued before it suspends
clearSession(s) ==
    LET s1 == stopActivityTracking(s)
        s2 == [s1 EXCEPT !.vault.mnemonic = "", !.vault.pin = "",
                         !.masterKey = NULL, !.sessionActive = FALSE,
                         !.wiped = TRUE]
        s3 == resetPinAttempts(s2)
    IN  [s3 EXCEPT !.storage.token = NULL]

\* returns the new state and the value handleFailedPinAttempt returns
handleFailedPinAttempt(s) ==
    LET s1 == [s EXCEPT !.failedPinAttempts = @ + 1]
        lockoutDuration == calculateLockoutDuration(s1.failedPinAttempts)
    IN  IF lockoutDuration = REQUIRE_MNEMONIC
        THEN [s |-> [showScreen(clearSession(alert(s1,
                        "Too many failed attempts. Use recovery phrase")),
                        "recover-vault-screen")
                         EXCEPT !.requireMnemonic = TRUE],
              severe |-> TRUE]
        ELSE IF lockoutDuration > 0
        THEN [s |-> alertSeconds([s1 EXCEPT !.pinLockoutUntil =
                                               s1.now + lockoutDuration],
                                 "Too many failed attempts. Please wait",
                                 Ceil(lockoutDuration, 1000)),
              severe |-> FALSE]
        ELSE [s |-> s1, severe |-> FALSE]

lockVaultKeepKey(s, p) ==
    LET s1 == stopActivityTracking(s)
        s2 == [s1 EXCEPT !.vault.mnemonic = "", !.sessionActive = FALSE,
                         !.wiped = TRUE]
    IN  [s2 EXCEPT !.pc[p] = "lock_get", !.loc[p].token = s2.storage.token]

\* lockVault up to its await on storageGet
lockVault(s, p) ==
    LET s1 == stopActivityTracking(s)
        s2 == [s1 EXCEPT !.vault.mnemonic = "", !.masterKey = NULL,
                         !.sessionActive = FALSE, !.wiped = TRUE]
    IN  [s2 EXCEPT !.pc[p] = "lock_get", !.loc[p].token = s2.storage.token]

\* lockVault after storageGet, then the rest of its caller
lockVaultShow(s, p) ==
    LET s1 == IF s.loc[p].token # NULL
              THEN showScreen(s, "quick-unlock-screen")
              ELSE showScreen(s, "recover-vault-screen")
    IN  Done(IF p = "timer"
             THEN alert(s1, "Session timed out due to inactivity")
             ELSE s1, p)

(* ------------- the rest of each handler after save / load -------------- *)

\* the values a handler draws from getRandomValues in one step
Rnd == [iv : Nonces, pinSalt : PinSalts, mnemonic : Mnemonics, salt : Salts]

\* checkPendingSave: showAutoSaveModal(window.pendingPasswordSave)
checkPendingSave(s) ==
    IF s.window.pendingPasswordSave # NULL
    THEN [s EXCEPT !.window.currentPendingSave =
                       s.window.pendingPasswordSave]
    ELSE s

\* sessionActive = true; showScreen; startActivityTracking (create, recover)
enterDashboard(s, p) ==
    Done(checkPendingSave(startActivityTracking(
             showScreen([s EXCEPT !.sessionActive = TRUE,
                                  !.wiped = FALSE, !.loggedOut = FALSE],
                        "dashboard-screen"))), p)

\* 'if (vault.pin && vault.mnemonic && vault.salt)' createUnlockToken(...)
storeTokenOrEnter(s, p, rnd, tokenPc) ==
    IF s.vault.pin # "" /\ s.vault.mnemonic # "" /\ s.vault.salt # ""
    THEN [s EXCEPT !.pc[p] = tokenPc,
                   !.loc[p].out = createUnlockToken(s.vault.mnemonic,
                                      s.vault.salt, s.vault.pin,
                                      rnd.pinSalt, rnd.iv)]
    ELSE enterDashboard(s, p)

\* continue-dashboard-btn after 'await saveVault()'
contAfterSave(s, p, rnd) == storeTokenOrEnter(s, p, rnd, "cont_token")

\* session-timeout-select after 'await saveVault()'
selectAfterSave(s, p) ==
    Done(IF s.sessionActive THEN resetSessionTimeout(s) ELSE s, p)

\* confirm-change-pin-btn after 'await saveVault()'
chpinAfterSave(s, p) == Done(alert(s, "PIN changed successfully"), p)

\* POST of backupData to the backup server
backupToServer(s) ==
    IF s.vault.backupIP = ""
    THEN s
    ELSE [s EXCEPT !.sent = @ \cup
              {[to |-> "backup",
                mnemonic |-> s.vault.mnemonic,
                passwords |-> s.vault.passwords]}]

\* sync-now-btn after 'await saveVault()'
syncAfterSave(s, p) == Done(backupToServer(s), p)

\* audit-toggle after 'await saveVault()'
auditAfterSave(s, p) == Done(s, p)

\* save-password-btn after 'await saveVault()'
savepwAfterSave(s, p) == Done(showScreen(s, "dashboard-screen"), p)

\* clearPendingSave up to its await: the removal is issued
clearPendingSave(s) ==
    [s EXCEPT !.window = [pendingPasswordSave |-> NULL,
                          currentPendingSave |-> NULL],
              !.storage.pendingSave = NULL]

\* auto-save-save-btn after 'await saveVault()'
autosaveAfterSave(s, p) == Done(clearPendingSave(s), p)

\* import-file-input after 'await saveVault()': the list is rendered and
\* the notification shown
importAfterSave(s, p) == Done(s, p)

AfterSave(s, p, rnd) ==
    CASE p = "cont" -> contAfterSave(s, p, rnd)
      [] p = "select" -> selectAfterSave(s, p)
      [] p = "sync" -> syncAfterSave(s, p)
      [] p = "audit" -> auditAfterSave(s, p)
      [] p = "savepw" -> savepwAfterSave(s, p)
      [] p = "autosave" -> autosaveAfterSave(s, p)
      [] p = "import" -> importAfterSave(s, p)
      [] OTHER -> chpinAfterSave(s, p)

\* recover-vault-submit-btn after 'await loadVault()'
recAfterLoad(s, p, loaded, rnd) ==
    IF ~loaded
    THEN Done(alert(s, NoVaultFound), p)
    ELSE storeTokenOrEnter(s, p, rnd, "rec_token")

\* quick-unlock-btn after 'await loadVault()'
quAfterLoad(s, p, loaded) ==
    IF ~loaded
    THEN Done(alert(s, "Failed to load vault"), p)
    ELSE Done(checkPendingSave(startActivityTracking(
                  showScreen([resetPinAttempts(s)
                                  EXCEPT !.sessionActive = TRUE,
                                         !.wiped = FALSE],
                             "dashboard-screen"))), p)

AfterLoad(s, p, loaded, rnd) ==
    IF p = "rec"
    THEN recAfterLoad(s, p, loaded, rnd)
    ELSE quAfterLoad(s, p, loaded)

(* ----------------------------- saveVault ------------------------------- *)

\* vaultData is built and encryptVault is called; a null key throws into
\* saveVault's catch
saveVaultEncrypt(s, p, rnd) ==
    LET vaultData == [authMethod |-> s.vault.authMethod,
                      pin |-> s.vault.pin,
                      passwords |-> s.vault.passwords,
                      backupIP |-> s.vault.backupIP,
                      auditEnabled |-> s.vault.auditEnabled,
                      salt |-> s.vault.salt,
                      sessionTimeout |-> s.vault.sessionTimeout]
        encryptedVault == encryptVault(vaultData, s.masterKey, rnd.iv)
    IN  IF ~encryptedVault.ok
        THEN AfterSave(alert(s, "Failed to save vault"), p, rnd)
        ELSE [s EXCEPT !.pc[p] = "sv_encrypt",
                       !.loc[p].out = encryptedVault]

saveVault(s, p, rnd) ==
    IF s.masterKey = NULL /\ s.vault.mnemonic # ""
    THEN [s EXCEPT !.pc[p] = "sv_derive",
                   !.loc[p].dk = deriveMasterKey(s.vault.mnemonic,
                                                 s.vault.salt)]
    ELSE saveVaultEncrypt(s, p, rnd)

saveVaultDerived(s, p, rnd) ==
    saveVaultEncrypt([s EXCEPT !.masterKey = s.loc[p].dk], p, rnd)

\* storedVault = encryptedVault + {salt: vault.salt}; storageSet is issued
saveVaultStore(s, p) ==
    LET storedVault == [ciphertext |-> s.loc[p].out.ciphertext,
                        iv |-> s.loc[p].out.iv,
                        salt |-> s.vault.salt]
    IN  [s EXCEPT !.storage.vault = storedVault, !.pc[p] = "sv_stored",
                  !.loc[p].stored = storedVault]

\* fingerprint, status and verification change nothing; saveVault returns
saveVaultReturn(s, p, rnd) == AfterSave(s, p, rnd)

\* logVaultToBlockchain -> logVaultWithIPFS(encryptedVaultJSON, "", operation):
\* the value it returns and the payload handed to the contract
logVaultToBlockchain(s, encryptedVaultJSON, operation, fate) ==
    IF ~fate.enabled
    THEN [s |-> s, result |-> [success |-> FALSE]]
    ELSE [s |-> [s EXCEPT !.sent = @ \cup
                     {[to |-> "ledger",
                       hash |-> keccak256(encryptedVaultJSON),
                       operation |-> operation]}],
          result |-> [success |-> fate.ok]]

saveVaultAuditAlways(s, p, rnd, fate) ==
    LET r == logVaultToBlockchain(s, s.loc[p].stored, "save", fate)
    IN  [r.s EXCEPT !.pc[p] = "sv_audit", !.loc[p].out = r.result]

\* saveVault after storageSet and the fingerprint: the audit logging
saveVaultAudit(s, p, rnd, fate) ==
    IF s.vault.auditEnabled
    THEN LET r == logVaultToBlockchain(s, s.loc[p].stored, "save", fate)
         IN  [r.s EXCEPT !.pc[p] = "sv_audit", !.loc[p].out = r.result]
    ELSE saveVaultReturn(s, p, rnd)

(* ----------------------------- loadVault ------------------------------- *)

loadVault(s, p) ==
    [s EXCEPT !.pc[p] = "lv_get", !.loc[p].stored = s.storage.vault]

\* decryptVault is called with the masterKey of this moment
loadVaultDecrypt(s, p, rnd) ==
    IF s.masterKey = NULL
    THEN AfterLoad(alert(s, FailedToDecrypt), p, FALSE, rnd)
    ELSE [s EXCEPT !.pc[p] = "lv_decrypt",
                   !.loc[p].out = decryptVault(s.loc[p].stored,
                                               s.masterKey)]

\* loadVault that does not read the salt metadata
loadVaultGotNoSalt(s, p, rnd) ==
    IF s.loc[p].stored = NULL
    THEN AfterLoad(s, p, FALSE, rnd)
    ELSE IF s.masterKey = NULL /\ s.vault.mnemonic # ""
    THEN [s EXCEPT !.pc[p] = "lv_fp"]
    ELSE loadVaultDecrypt(s, p, rnd)

loadVaultGot(s, p, rnd) ==
    IF s.loc[p].stored = NULL
    THEN AfterLoad(s, p, FALSE, rnd)
    ELSE IF s.masterKey = NULL /\ s.vault.mnemonic # ""
    THEN [s EXCEPT !.vault.salt = IF s.loc[p].stored.salt # ""
                                  THEN s.loc[p].stored.salt
                                  ELSE @,
                   !.pc[p] = "lv_fp"]
    ELSE loadVaultDecrypt(s, p, rnd)

\* after deriveKeyFingerprint: deriveMasterKey(vault.mnemonic, vault.salt)
loadVaultFingerprinted(s, p) ==
    [s EXCEPT !.pc[p] = "lv_derive",
              !.loc[p].dk = deriveMasterKey(s.vault.mnemonic, s.vault.salt)]

loadVaultDerived(s, p, rnd) ==
    loadVaultDecrypt([s EXCEPT !.masterKey = s.loc[p].dk], p, rnd)

loadVaultDecrypted(s, p, rnd) ==
    LET r == s.loc[p].out IN
    IF ~r.ok
    THEN AfterLoad(alert(s, FailedToDecrypt), p, FALSE, rnd)
    ELSE AfterLoad([s EXCEPT
             !.vault.authMethod = IF r.plain.authMethod # ""
                                  THEN r.plain.authMethod ELSE "biometric",
             !.vault.pin = r.plain.pin,
             !.vault.passwords = r.plain.passwords,
             !.vault.backupIP = r.plain.backupIP,
             !.vault.auditEnabled = r.plain.auditEnabled,
             !.vault.salt = IF r.plain.salt # "" THEN r.plain.salt ELSE @,
             !.vault.sessionTimeout = r.plain.sessionTimeout],
             p, TRUE, rnd)

(* --------------------------- handler bodies ---------------------------- *)

\* generate-mnemonic-btn up to 'await deriveMasterKey'
genClick(s, p, hasUsername, rnd) ==
    IF ~hasUsername
    THEN Done(alert(s, "Please enter a username or email"), p)
    ELSE [s EXCEPT !.vault.mnemonic = rnd.mnemonic,
                   !.vault.salt = rnd.salt,
                   !.pc[p] = "gen_derive",
                   !.loc[p].dk = deriveMasterKey(rnd.mnemonic, rnd.salt)]

genDerived(s, p) ==
    Done([s EXCEPT !.masterKey = s.loc[p].dk,
                   !.createStage = "mnemonic"], p)

\* continue-dashboard-btn up to the first await inside saveVault
contClick(s, p, pin, confirmPin, rnd) ==
    IF s.vault.authMethod = "pin"
    THEN IF pin = "" \/ PinLength(pin) # 6
         THEN Done(alert(s, "Please enter a 6-digit PIN"), p)
         ELSE IF pin # confirmPin
         THEN Done(alert(s, "PINs do not match"), p)
         ELSE saveVault([s EXCEPT !.vault.pin = pin], p, rnd)
    ELSE saveVault(s, p, rnd)

\* 'await storageSet({blockpass-unlock-token: unlockToken})' is issued
tokenCreated(s, p, setPc) ==
    [s EXCEPT !.storage.token = s.loc[p].out, !.pc[p] = setPc,
              !.requireMnemonic = IF p \in {"cont", "rec"} THEN FALSE ELSE @,
              !.loggedOut = IF p \in {"cont", "rec"} THEN FALSE ELSE @]

\* recover-vault-submit-btn up to the await inside loadVault
recClick(s, p, mnemonic) ==
    IF mnemonic = ""
    THEN Done(alert(s, "Please enter your recovery phrase"), p)
    ELSE loadVault([s EXCEPT !.vault.mnemonic = mnemonic,
                             !.loc[p].mnemonic = mnemonic], p)

\* quick-unlock-btn from the storageGet result to 'await decryptUnlockToken'
quGot(s, p) ==
    IF s.loc[p].token = NULL
    THEN Done(showScreen(alert(s, "No unlock token found"),
                         "recover-vault-screen"), p)
    ELSE [s EXCEPT !.pc[p] = "qu_decrypt",
                   !.loc[p].out = decryptUnlockToken(s.loc[p].token,
                                                     s.loc[p].pin)]

\* quick-unlock-btn that counts a rejected click as a failed attempt
quClickCounting(s, p, pin) ==
    IF pin = "" \/ PinLength(pin) # 6
    THEN Done(alert(handleFailedPinAttempt(s).s,
                    "Please enter a valid 6-digit PIN"), p)
    ELSE LET lockout == checkPinLockout(s)
             s1 == [s EXCEPT !.pc[p] = "qu_get",
                             !.loc[p].pin = pin,
                             !.loc[p].lockout = lockout,
                             !.loc[p].token = s.storage.token]
         IN  IF lockout.locked
             THEN Done(alertSeconds(handleFailedPinAttempt(s).s,
                                    "Too many failed attempts. Please wait",
                                    lockout.remainingTime), p)
             ELSE IF s1.loc[p].token = NULL THEN s1 ELSE quGot(s1, p)

\* quick-unlock-btn up to 'await storageGet'.  When the token is there the
\* resume only passes it on to decryptUnlockToken, which touches no shared
\* state, so that resume is taken with the click.
quClick(s, p, pin) ==
    IF pin = "" \/ PinLength(pin) # 6
    THEN Done(alert(s, "Please enter a valid 6-digit PIN"), p)
    ELSE LET lockout == checkPinLockout(s)
             s1 == [s EXCEPT !.pc[p] = "qu_get",
                             !.loc[p].pin = pin,
                             !.loc[p].lockout = lockout,
                             !.loc[p].token = s.storage.token]
         IN  IF lockout.locked
             THEN Done(alertSeconds(s,
                                    "Too many failed attempts. Please wait",
                                    lockout.remainingTime), p)
             ELSE IF s1.loc[p].token = NULL THEN s1 ELSE quGot(s1, p)

\* quick-unlock-btn from the decryption result: the catch block, or the
\* restored credentials and the call of loadVault
quDecrypted(s, p) ==
    LET tokenData == s.loc[p].out
        h == handleFailedPinAttempt(s)
    IN  IF ~tokenData.ok
        THEN Done(IF ~h.severe THEN alert(h.s, IncorrectPin) ELSE h.s, p)
        ELSE loadVault([s EXCEPT
                            !.vault.mnemonic = tokenData.plain.mnemonic,
                            !.vault.salt = tokenData.plain.vaultSalt,
                            !.vault.pin = s.loc[p].pin,
                            !.loc[p].mnemonic = tokenData.plain.mnemonic], p)

\* logout-clear-session-btn, confirmed, up to the await inside clearSession
logoutClick(s, p) == [clearSession(s) EXCEPT !.pc[p] = "logout_wait"]

logoutCleared(s, p) ==
    Done(showScreen(alert([s EXCEPT !.loggedOut = TRUE], "Session cleared"),
                    "onboarding-screen"), p)

\* session-timeout-select up to the first await inside saveVault
selectChange(s, p, minutes, rnd) ==
    saveVault([s EXCEPT !.vault.sessionTimeout = minutes], p, rnd)

\* change-pin-btn opens the modal with the confirm button
changePinOpens(s) == ~(~s.sessionActive \/ s.vault.mnemonic = "")

chpinGot(s, p) ==
    IF s.loc[p].token = NULL
    THEN Done(alert(s, "No unlock token found. Cannot change PIN"), p)
    ELSE [s EXCEPT !.pc[p] = "chpin_decrypt",
                   !.loc[p].out = decryptUnlockToken(s.loc[p].token,
                                                     s.loc[p].pin)]

\* confirm-change-pin-btn up to 'await storageGet' (and, as in quClick,
\* on to 'await decryptUnlockToken' when the token is there)
chpinClick(s, p, currentPin, newPin, newPinConfirm) ==
    LET s1 == [s EXCEPT !.pc[p] = "chpin_get",
                        !.loc[p].pin = currentPin,
                        !.loc[p].newPin = newPin,
                        !.loc[p].token = s.storage.token]
    IN  IF currentPin = "" \/ PinLength(currentPin) # 6
        THEN Done(alert(s, "Please enter your current 6-digit PIN"), p)
        ELSE IF newPin = "" \/ PinLength(newPin) # 6
        THEN Done(alert(s, "Please enter a new 6-digit PIN"), p)
        ELSE IF newPin # newPinConfirm
        THEN Done(alert(s, "New PINs do not match"), p)
        ELSE IF currentPin = newPin
        THEN Done(alert(s, "New PIN must be different from current PIN"), p)
        ELSE IF s1.loc[p].token = NULL THEN s1 ELSE chpinGot(s1, p)

chpinDecryptedUnverified(s, p, rnd) ==
    [s EXCEPT !.pc[p] = "chpin_token",
              !.loc[p].out = createUnlockToken(s.vault.mnemonic,
                                 s.vault.salt, s.loc[p].newPin,
                                 rnd.pinSalt, rnd.iv)]

\* the current PIN was verified (or the catch block runs)
chpinDecrypted(s, p, rnd) ==
    IF ~s.loc[p].out.ok
    THEN Done(alert(s, "Current PIN is incorrect"), p)
    ELSE [s EXCEPT !.pc[p] = "chpin_token",
                   !.loc[p].out = createUnlockToken(s.vault.mnemonic,
                                      s.vault.salt, s.loc[p].newPin,
                                      rnd.pinSalt, rnd.iv)]

\* after storageSet of the new token: vault.pin = newPin; saveVault()
chpinTokenStored(s, p, rnd) ==
    saveVault([s EXCEPT !.vault.pin = s.loc[p].newPin], p, rnd)

\* sync-now-btn up to the first await inside saveVault
syncClick(s, p, backupIP, rnd) ==
    saveVault([s EXCEPT !.vault.backupIP = backupIP], p, rnd)

\* audit-toggle up to the first await inside saveVault
auditChange(s, p, checked, rnd) ==
    saveVault([s EXCEPT !.vault.auditEnabled = checked], p, rnd)

\* the text editPassword puts into the password field: eight bullets
Placeholder == "placeholder"

\* the record r with its field f set to v, added if r has none
SetField(r, f, v) ==
    [k \in DOMAIN r \cup {f} |-> IF k = f THEN v ELSE r[k]]

\* vault.passwords.findIndex(pwd => pwd.id === id)
findIndex(passwords, id) ==
    IF \E i \in DOMAIN passwords : passwords[i].id = id
    THEN CHOOSE i \in DOMAIN passwords :
             /\ passwords[i].id = id
             /\ \A j \in 1..(i - 1) : passwords[j].id # id
    ELSE -1

\* Date.now().toString() of a new entry: the clicks that add entries
\* fall into different milliseconds, so the ids differ
newId(passwords) == [ms |-> Len(passwords) + 1]

\* save-password-btn: 'await encryptPassword(password, masterKey)', or its
\* catch when the key is null
savepwEncrypt(s, p, rnd) ==
    LET encrypted == encryptPassword(s.loc[p].password, s.masterKey, rnd.iv)
    IN  IF ~encrypted.ok
        THEN Done(alert(s, "Failed to encrypt password"), p)
        ELSE [s EXCEPT !.pc[p] = "pw_encrypt", !.loc[p].out = encrypted]

\* the placeholder branch that encrypts the text of the password field
savepwPlaceholderEncrypt(s, p, form, rnd) ==
    savepwEncrypt(s, p, rnd)

\* save-password-btn while editing with the placeholder left in the
\* password field: the other fields are written into the entry, then
\* saveVault; with no entry of that id the first assignment throws
savepwPlaceholder(s, p, form, rnd) ==
    LET index == findIndex(s.vault.passwords, s.currentPasswordId) IN
    IF index = -1
    THEN Done(s, p)
    ELSE saveVault([s EXCEPT !.vault.passwords[index] =
                       SetField([@ EXCEPT !.website = form.website,
                                          !.username = form.username,
                                          !.notes = form.notes],
                                "updated", DateNow)], p, rnd)

\* save-password-btn up to its first await
savepwClick(s, p, form, rnd) ==
    LET s1 == [s EXCEPT !.loc[p].password = form.password,
                        !.loc[p].form = form]
    IN  IF form.website = "" \/ form.username = "" \/ form.password = ""
        THEN Done(alert(s, "Please fill in all required fields"), p)
        ELSE IF s1.currentPasswordId # NULL /\ form.password = Placeholder
        THEN savepwPlaceholder(s1, p, form, rnd)
        ELSE IF s1.masterKey = NULL
        THEN [s1 EXCEPT !.pc[p] = "pw_derive",
                        !.loc[p].dk = deriveMasterKey(s1.vault.mnemonic,
                                                      s1.vault.salt)]
        ELSE savepwEncrypt(s1, p, rnd)

savepwDerived(s, p, rnd) ==
    savepwEncrypt([s EXCEPT !.masterKey = s.loc[p].dk], p, rnd)

\* after encryptPassword: the entry of currentPasswordId is replaced, or
\* a new entry is pushed; then 'await saveVault()'
savepwEncrypted(s, p, rnd) ==
    LET form == s.loc[p].form
        encrypted == [ciphertext |-> s.loc[p].out.ciphertext,
                      iv |-> s.loc[p].out.iv]
        index == findIndex(s.vault.passwords, s.currentPasswordId)
    IN  IF s.currentPasswordId # NULL
        THEN IF index = -1
             THEN saveVault(s, p, rnd)
             ELSE saveVault([s EXCEPT !.vault.passwords[index] =
                                [id |-> s.currentPasswordId,
                                 website |-> form.website,
                                 username |-> form.username,
                                 encrypted |-> encrypted,
                                 notes |-> form.notes,
                                 updated |-> DateNow]], p, rnd)
        ELSE saveVault([s EXCEPT !.vault.passwords =
                           Append(@, [id |-> newId(s.vault.passwords),
                                      website |-> form.website,
                                      username |-> form.username,
                                      encrypted |-> encrypted,
                                      notes |-> form.notes,
                                      created |-> DateNow])], p, rnd)

\* auto-save-save-btn up to its await on encryptPassword; a null key
\* makes it throw, and nothing catches
autosaveClick(s, p, rnd) ==
    LET pendingData == s.window.currentPendingSave IN
    IF pendingData = NULL
    THEN Done(s, p)
    ELSE LET encryptedPassword ==
                 encryptPassword(pendingData.password, s.masterKey, rnd.iv)
         IN  IF ~encryptedPassword.ok
             THEN Done(s, p)
             ELSE [s EXCEPT !.pc[p] = "as_encrypt",
                            !.loc[p].form = pendingData,
                            !.loc[p].out = encryptedPassword]

\* vault.passwords.push(newPassword); await saveVault()
autosaveEncrypted(s, p, rnd) ==
    LET pendingData == s.loc[p].form IN
    saveVault([s EXCEPT !.vault.passwords =
                   Append(@, [id |-> newId(s.vault.passwords),
                              website |-> pendingData.domain,
                              username |-> pendingData.username,
                              password |->
                                  [ciphertext |-> s.loc[p].out.ciphertext,
                                   iv |-> s.loc[p].out.iv],
                              notes |-> "Auto-saved",
                              createdAt |-> DateNow])], p, rnd)

\* authenticate-btn: 'await decryptPassword(password.encrypted,
\* masterKey)'; an entry without the field encrypted makes it throw
viewDecrypt(s, p) ==
    LET password == s.loc[p].entry IN
    [s EXCEPT !.pc[p] = "view_decrypt",
              !.loc[p].out = IF "encrypted" \in DOMAIN password
                             THEN decryptPassword(password.encrypted,
                                                  s.masterKey)
                             ELSE [ok |-> FALSE]]

\* view-btn of the entry id, then authenticate-btn up to its first await
viewClick(s, p, id) ==
    LET index == findIndex(s.vault.passwords, id) IN
    IF index = -1
    THEN Done(s, p)
    ELSE LET s1 == [showScreen(s, "view-password-screen")
                        EXCEPT !.currentPasswordId = id,
                               !.loc[p].entry = s.vault.passwords[index]]
         IN  IF s1.masterKey = NULL
             THEN [s1 EXCEPT !.pc[p] = "view_derive",
                             !.loc[p].dk = deriveMasterKey(s1.vault.mnemonic,
                                                           s1.vault.salt)]
             ELSE viewDecrypt(s1, p)

viewDerived(s, p) == viewDecrypt([s EXCEPT !.masterKey = s.loc[p].dk], p)

\* the password details are shown, or the catch block alerts
viewDecrypted(s, p) ==
    IF ~s.loc[p].out.ok
    THEN Done(alert(s, "Failed to decrypt password. Please try again."), p)
    ELSE Done(s, p)

\* background worker: handleSavePassword(data) with the credentials the
\* content script read from a submitted login form
handleSavePassword(s, data) == [s EXCEPT !.storage.pendingSave = data]

\* the popup is closed and opened again: the script starts anew with the
\* initial values of its variables, suspended handlers and pending timers
\* are gone with the page, chrome.storage.local stays
reopenPopup(s) ==
    [s EXCEPT !.vault = InitVault,
              !.masterKey = NULL,
              !.sessionActive = FALSE,
              !.sessionTimeoutTimer = 0,
              !.failedPinAttempts = 0,
              !.pinLockoutUntil = 0,
              !.currentScreen = DOMContentLoaded(s.storage),
              !.createStage = "generate",
              !.timers = << >>,
              !.pc = [p \in Procs |-> "idle"],
              !.loc = [p \in Procs |-> LocInit],
              !.currentPasswordId = NULL,
              !.window = WindowLoaded(s.storage),
              !.IPFS_CONFIG = initIPFSConfig(s.storage),
              !.wiped = TRUE,
              !.restarted = TRUE]

\* the setTimeout callback of resetSessionTimeout, up to lockVault's await
timerFired(s, id) == lockVault(clearTimeout(s, id), "timer")

(* -------------------------- export and import -------------------------- *)

\* atob applies ToString to its argument; an object gives the string
\* "[object Object]", whose brackets are no base64 characters (66), whose
\* space is white space (65) and whose letters are sextets
ObjectToString ==
    <<66, 40, 27, 35, 30, 28, 45, 65, 14, 27, 35, 30, 28, 45, 66>>

\* export-vault-btn up to 'await encryptData(exportJSON, masterKey)'; a
\* null key makes encryptData throw into the catch block
exportClick(s, p, rnd) ==
    LET exportData == [version |-> "1.0",
                       passwords |-> s.vault.passwords,
                       salt |-> s.vault.salt,
                       sessionTimeout |-> s.vault.sessionTimeout,
                       auditEnabled |-> s.vault.auditEnabled,
                       backupIP |-> s.vault.backupIP]
        encryptedExport == encryptData(exportData, s.masterKey, rnd.iv)
    IN  IF ~encryptedExport.ok
        THEN Done(alert(s, "Failed to export vault"), p)
        ELSE [s EXCEPT !.pc[p] = "exp_encrypt",
                       !.loc[p].out = encryptedExport]

\* the file {encrypted, exportedAt, version} is downloaded
exportEncrypted(s, p) ==
    Done([s EXCEPT !.downloads = @ \cup
              {[encrypted |-> [ciphertext |-> s.loc[p].out.ciphertext,
                               iv |-> s.loc[p].out.iv],
                version |-> "1.0"]}], p)

\* import-file-input change: reader.readAsText(file) is started
importChange(s, p, file) ==
    [s EXCEPT !.pc[p] = "imp_read", !.loc[p].file = file]

\* the call decryptData(importedData.encrypted, masterKey) as crypto.js
\* runs it: the parameter ciphertext is the object {ciphertext, iv}, the
\* parameter ivBase64 is the key, the parameter key is undefined.
\* base64ToArrayBuffer(ciphertext) throws on the object; were it to
\* return, crypto.subtle.decrypt would reject the undefined key
importDecrypt(encrypted, key) ==
    LET encryptedData == base64ToArrayBuffer(ObjectToString)
    IN  IF ~encryptedData.ok
        THEN [ok |-> FALSE]
        ELSE decryptData(encrypted.ciphertext, key, NULL)

\* reader.onload up to 'await decryptData'
importLoaded(s, p) ==
    LET importedData == s.loc[p].file IN
    IF importedData.encrypted = NULL \/ importedData.version = ""
    THEN Done(alert(s, "Invalid vault file format"), p)
    ELSE [s EXCEPT !.pc[p] = "imp_decrypt",
                   !.loc[p].out = importDecrypt(importedData.encrypted,
                                                s.masterKey)]

\* the entries of the imported vault whose id is not in vault.passwords
newPasswords(passwords, imported) ==
    LET existingIds == {passwords[i].id : i \in DOMAIN passwords}
    IN  SelectSeq(imported, LAMBDA e : e.id \notin existingIds)

\* reader.onload after decryptData: the catch block, or the confirm
\* dialog, the merge and 'await saveVault()'
importDecrypted(s, p, confirmed, rnd) ==
    IF ~s.loc[p].out.ok
    THEN Done(alert(s, "Failed to import vault: Invalid or corrupted file"),
              p)
    ELSE LET importedVault == s.loc[p].out.plain
         IN  IF ~confirmed
             THEN Done(s, p)
             ELSE saveVault(
                      [s EXCEPT !.vault.passwords =
                                    @ \o newPasswords(@,
                                             importedVault.passwords),
                                !.vault.sessionTimeout =
                                    importedVault.sessionTimeout,
                                !.vault.backupIP =
                                    IF importedVault.backupIP # ""
                                    THEN importedVault.backupIP ELSE @],
                      p, rnd)

(* ------------------------------- ipfs.js ------------------------------- *)

\* Pinata JWT tokens handed to enableIPFSBackup
Tokens == {"", "jwt"}

\* content identifiers Pinata returns
Cids == {"cid1", "cid2"}

\* values handed to downloadFromIPFS as cid: strings, undefined, a number
CidInputs == {[type |-> "string", value |-> ""],
              [type |-> "string", value |-> "cid1"],
              [type |-> "undefined"],
              [type |-> "number", number |-> 7]}

\* what fetch does: it rejects, or resolves with a response that is ok or
\* carries an HTTP error status
FetchFates == {[rejected |-> TRUE, message |-> "Failed to fetch"],
               [rejected |-> FALSE, ok |-> FALSE, status |-> 401],
               [rejected |-> FALSE, ok |-> TRUE, status |-> 200]}

\* bodies of an ok response to the upload as response.json() reads them:
\* not JSON, or the Pinata answer with its IpfsHash
UploadBodies == {[json |-> FALSE]} \cup [json : {TRUE}, IpfsHash : Cids]

\* bodies of an ok response of the gateway: not JSON, the JSON null, or an
\* object whose ciphertext and iv are present ("c", "i") or absent ("")
DownloadBodies ==
    {[json |-> FALSE], [json |-> TRUE, value |-> NULL]}
        \cup {[json |-> TRUE, value |-> v] :
                  v \in [ciphertext : {"", "c"}, iv : {"", "i"}]}

\* the promise of the async function is fulfilled with value
Return(s, p, fn, value) ==
    Done([s EXCEPT !.returned = @ \cup {[fn |-> fn, thrown |-> FALSE,
                                         value |-> value]}], p)

\* the catch block: error.message || 'Unknown IPFS ... error'
catchIPFS(s, p, fn, error, unknown) ==
    Return(s, p, fn, [success |-> FALSE,
                      error |-> IF error.message # ""
                                THEN error.message ELSE unknown])

isIPFSEnabled(s) == s.IPFS_CONFIG.enabled /\ s.IPFS_CONFIG.pinataJWT # ""

\* enableIPFSBackup up to its await: the config is set and its write issued
enableIPFSBackup(s, token) ==
    LET config == [enabled |-> TRUE, pinataJWT |-> token]
    IN  [s EXCEPT !.IPFS_CONFIG = config, !.storage.ipfsConfig = config,
                  !.returned = @ \cup {[fn |-> "enableIPFSBackup",
                                        thrown |-> FALSE,
                                        value |-> [success |-> TRUE]]}]

disableIPFSBackup(s) ==
    LET config == [s.IPFS_CONFIG EXCEPT !.enabled = FALSE]
    IN  [s EXCEPT !.IPFS_CONFIG = config, !.storage.ipfsConfig = config]

\* the POST to /pinning/pinFileToIPFS with the bearer token of this moment
pinFileToIPFS(s, p, encryptedVault) ==
    [s EXCEPT !.pc[p] = "up_fetch",
              !.sent = @ \cup {[to |-> "pinata",
                                jwt |-> s.IPFS_CONFIG.pinataJWT,
                                file |-> encryptedVault]}]

\* uploadToIPFS that does not ask whether the backup is enabled
uploadToIPFSUnchecked(s, p, encryptedVault) ==
    pinFileToIPFS(s, p, encryptedVault)

\* uploadToIPFS up to 'await fetch'
uploadToIPFS(s, p, encryptedVault) ==
    IF ~isIPFSEnabled(s)
    THEN Return(s, p, "uploadToIPFS",
                [success |-> FALSE, error |-> "IPFS not enabled"])
    ELSE pinFileToIPFS(s, p, encryptedVault)

\* fetch has settled: the rejection is caught, an error status leads to
\* 'await response.text()', an ok response to 'await response.json()'
uploadFetched(s, p, response) ==
    IF response.rejected
    THEN catchIPFS(s, p, "uploadToIPFS", response,
                   "Unknown IPFS upload error")
    ELSE IF ~response.ok
    THEN [s EXCEPT !.pc[p] = "up_text", !.loc[p].out = response]
    ELSE [s EXCEPT !.pc[p] = "up_json", !.loc[p].out = response]

\* response.text() has settled: its rejection, or the Error thrown with
\* the status, reaches the catch block
uploadText(s, p, read) ==
    catchIPFS(s, p, "uploadToIPFS",
              IF read THEN [message |-> "Upload failed"]
              ELSE [message |-> "body stream"],
              "Unknown IPFS upload error")

\* response.json() has settled: a body that is not JSON rejects; else the
\* cid is read and 'await chrome.storage.local.set' is issued
uploadJson(s, p, body) ==
    IF ~body.json
    THEN catchIPFS(s, p, "uploadToIPFS", [message |-> "Unexpected token"],
                   "Unknown IPFS upload error")
    ELSE [s EXCEPT !.pc[p] = "up_set", !.loc[p].cid = body.IpfsHash]

\* chrome.storage.local.set has settled: the items are written and the
\* result returned, or the rejection is caught
uploadStored(s, p, written) ==
    IF ~written
    THEN catchIPFS(s, p, "uploadToIPFS", [message |-> "QUOTA_BYTES"],
                   "Unknown IPFS upload error")
    ELSE Return([s EXCEPT !.storage.ipfsLast =
                              [cid |-> s.loc[p].cid, backup |-> s.now]],
                p, "uploadToIPFS",
                [success |-> TRUE, cid |-> s.loc[p].cid,
                 timestamp |-> s.now])

\* downloadFromIPFS up to 'await fetch(gatewayUrl)'
downloadFromIPFS(s, p, cid) ==
    IF ~(cid.type = "string" /\ cid.value # "") \/ cid.type # "string"
    THEN Return(s, p, "downloadFromIPFS",
                [success |-> FALSE, error |-> "Invalid CID"])
    ELSE [s EXCEPT !.pc[p] = "down_fetch", !.loc[p].cid = cid.value,
                   !.sent = @ \cup {[to |-> "gateway",
                                     cid |-> cid.value]}]

downloadFetched(s, p, response) ==
    IF response.rejected
    THEN catchIPFS(s, p, "downloadFromIPFS", response,
                   "Unknown IPFS download error")
    ELSE IF ~response.ok
    THEN catchIPFS(s, p, "downloadFromIPFS",
                   [message |-> "Download failed"],
                   "Unknown IPFS download error")
    ELSE [s EXCEPT !.pc[p] = "down_json", !.loc[p].out = response]

\* response.json() has settled: the vault structure is validated
downloadJson(s, p, body) ==
    IF ~body.json
    THEN catchIPFS(s, p, "downloadFromIPFS",
                   [message |-> "Unexpected token"],
                   "Unknown IPFS download error")
    ELSE IF body.value = NULL
    THEN catchIPFS(s, p, "downloadFromIPFS",
                   [message |-> "Cannot read properties of null"],
                   "Unknown IPFS download error")
    ELSE IF body.value.ciphertext = "" \/ body.value.iv = ""
    THEN catchIPFS(s, p, "downloadFromIPFS",
                   [message |-> "Invalid vault format from IPFS"],
                   "Unknown IPFS download error")
    ELSE Return(s, p, "downloadFromIPFS",
                [success |-> TRUE, vault |-> body.value])

(* ------------------------------ actions -------------------------------- *)

\* the buttons that only call showScreen: <<screen of the button, target>>
NavEdges ==
    { <<"onboarding-screen", "create-vault-screen">>,
      <<"onboarding-screen", "recover-vault-screen">>,
      <<"create-vault-screen", "onboarding-screen">>,
      <<"recover-vault-screen", "onboarding-screen">>,
      <<"quick-unlock-screen", "recover-vault-screen">>,
      <<"dashboard-screen", "settings-screen">>,
      <<"add-edit-screen", "dashboard-screen">>,
      <<"view-password-screen", "dashboard-screen">>,
      <<"settings-screen", "dashboard-screen">> }

NavStep(S) == S \cup {e[2] : e \in {f \in NavEdges : f[1] \in S}}

\* the screens the user can bring up from screen by those buttons
NavReach(screen) == NavStep(NavStep(NavStep({screen})))

CanShow(target) == target \in NavReach(currentScreen)

GenerateMnemonic ==
    /\ CanShow("create-vault-screen")
    /\ createStage = "generate"
    /\ pc["gen"] = "idle"
    /\ CanStart
    /\ \E hasUsername \in BOOLEAN, rnd \in Rnd :
           Commit(genClick(showScreen(Cur, "create-vault-screen"),
                           "gen", hasUsername, rnd))

GenerateMnemonicDerived ==
    /\ pc["gen"] = "gen_derive"
    /\ Commit(genDerived(Cur, "gen"))

\* confirm-mnemonic-btn
ConfirmMnemonic ==
    /\ CanShow("create-vault-screen")
    /\ createStage = "mnemonic"
    /\ Commit([showScreen(Cur, "create-vault-screen")
                   EXCEPT !.createStage = "auth"])

\* input[name="auth-method"] change
AuthMethodChange ==
    /\ CanShow("create-vault-screen")
    /\ createStage = "auth"
    /\ \E m \in AuthChoices :
           /\ m # vault.authMethod
           /\ Commit([showScreen(Cur, "create-vault-screen")
                          EXCEPT !.vault.authMethod = m])

ContinueDashboard ==
    /\ CanShow("create-vault-screen")
    /\ createStage = "auth"
    /\ pc["cont"] = "idle"
    /\ CanStart
    /\ \E pin \in PinInputs, confirmPin \in PinInputs, rnd \in Rnd :
           Commit(contClick(showScreen(Cur, "create-vault-screen"),
                            "cont", pin, confirmPin, rnd))

ContinueTokenCreated ==
    /\ pc["cont"] = "cont_token"
    /\ Commit(tokenCreated(Cur, "cont", "cont_tokset"))

ContinueTokenStored ==
    /\ pc["cont"] = "cont_tokset"
    /\ Commit(enterDashboard(Cur, "cont"))

RecoverSubmit ==
    /\ CanShow("recover-vault-screen")
    /\ pc["rec"] = "idle"
    /\ CanStart
    /\ \E mnemonic \in MnemonicInputs :
           Commit(recClick(showScreen(Cur, "recover-vault-screen"),
                           "rec", mnemonic))

RecoverTokenCreated ==
    /\ pc["rec"] = "rec_token"
    /\ Commit(tokenCreated(Cur, "rec", "rec_tokset"))

RecoverTokenStored ==
    /\ pc["rec"] = "rec_tokset"
    /\ Commit(enterDashboard(Cur, "rec"))

\* a second click while the first handler is suspended runs as "qu2"
QuickUnlock(p) ==
    /\ currentScreen = "quick-unlock-screen"
    /\ pc[p] = "idle"
    /\ CanStart
    /\ p = "qu2" => pc["qu1"] # "idle"
    /\ \E pin \in PinInputs : Commit(quClick(Cur, p, pin))

QuickUnlockGot(p) ==
    /\ pc[p] = "qu_get"
    /\ Commit(quGot(Cur, p))

QuickUnlockDecrypted(p) ==
    /\ pc[p] = "qu_decrypt"
    /\ Commit(quDecrypted(Cur, p))

Logout ==
    /\ currentScreen = "quick-unlock-screen"
    /\ pc["logout"] = "idle"
    /\ CanStart
    /\ Commit(logoutClick(Cur, "logout"))

LogoutCleared ==
    /\ pc["logout"] = "logout_wait"
    /\ Commit(logoutCleared(Cur, "logout"))

\* lock-vault-btn
LockVaultBtn ==
    /\ CanShow("dashboard-screen")
    /\ pc["lock"] = "idle"
    /\ CanStart
    /\ Commit(lockVault(showScreen(Cur, "dashboard-screen"), "lock"))

LockVaultShown(p) ==
    /\ pc[p] = "lock_get"
    /\ Commit(lockVaultShow(Cur, p))

\* the runtime runs the callback of a timer whose delay has passed
TimerFire ==
    /\ pc["timer"] = "idle"
    /\ CanStart
    /\ \E id \in DOMAIN timers :
           /\ timers[id].deadline <= DateNow
           /\ Commit(timerFired(Cur, id))

\* mousedown, keydown, touchstart, scroll on the document
TrackActivity ==
    /\ sessionActive
    /\ Commit(trackActivity(Cur))

SessionTimeoutSelect ==
    /\ CanShow("settings-screen")
    /\ pc["select"] = "idle"
    /\ CanStart
    /\ \E minutes \in TimeoutChoices, rnd \in Rnd :
           /\ minutes # vault.sessionTimeout
           /\ Commit(selectChange(showScreen(Cur, "settings-screen"),
                                  "select", minutes, rnd))

\* change-pin-btn, then confirm-change-pin-btn in the modal it opens
ConfirmChangePin ==
    /\ CanShow("settings-screen")
    /\ changePinOpens(Cur)
    /\ pc["chpin"] = "idle"
    /\ CanStart
    /\ \E currentPin \in PinInputs, newPin \in PinInputs,
          newPinConfirm \in PinInputs :
           Commit(chpinClick(showScreen(Cur, "settings-screen"), "chpin",
                             currentPin, newPin, newPinConfirm))

ChangePinGot ==
    /\ pc["chpin"] = "chpin_get"
    /\ Commit(chpinGot(Cur, "chpin"))

ChangePinDecrypted ==
    /\ pc["chpin"] = "chpin_decrypt"
    /\ \E rnd \in Rnd : Commit(chpinDecrypted(Cur, "chpin", rnd))

ChangePinTokenCreated ==
    /\ pc["chpin"] = "chpin_token"
    /\ Commit(tokenCreated(Cur, "chpin", "chpin_tokset"))

ChangePinTokenStored ==
    /\ pc["chpin"] = "chpin_tokset"
    /\ \E rnd \in Rnd : Commit(chpinTokenStored(Cur, "chpin", rnd))

SaveVaultDerived(p) ==
    /\ pc[p] = "sv_derive"
    /\ \E rnd \in Rnd : Commit(saveVaultDerived(Cur, p, rnd))

SaveVaultEncrypted(p) ==
    /\ pc[p] = "sv_encrypt"
    /\ Commit(saveVaultStore(Cur, p))

SaveVaultStored(p) ==
    /\ pc[p] = "sv_stored"
    /\ \E rnd \in Rnd, fate \in LedgerFates :
           Commit(saveVaultAudit(Cur, p, rnd, fate))

SaveVaultAudited(p) ==
    /\ pc[p] = "sv_audit"
    /\ \E rnd \in Rnd : Commit(saveVaultReturn(Cur, p, rnd))

SyncNow ==
    /\ CanShow("settings-screen")
    /\ pc["sync"] = "idle"
    /\ CanStart
    /\ \E backupIP \in BackupIPs, rnd \in Rnd :
           Commit(syncClick(showScreen(Cur, "settings-screen"), "sync",
                            backupIP, rnd))

AuditToggle ==
    /\ CanShow("settings-screen")
    /\ pc["audit"] = "idle"
    /\ CanStart
    /\ \E rnd \in Rnd :
           Commit(auditChange(showScreen(Cur, "settings-screen"), "audit",
                              ~vault.auditEnabled, rnd))

\* what the user leaves in the form of a new entry and of an edited one
AddForms ==
    [website : {"", "site"}, username : {"user"}, password : Passwords,
     notes : {""}]

EditForms ==
    [website : {"site2"}, username : {"user"},
     password : Passwords \cup {Placeholder}, notes : {"note"}]

\* add-password-btn, then save-password-btn on the form it shows
SavePassword ==
    /\ CanShow("dashboard-screen")
    /\ pc["savepw"] = "idle"
    /\ CanStart
    /\ Len(vault.passwords) < MaxPasswords
    /\ \E form \in AddForms, rnd \in Rnd :
           Commit(savepwClick([showScreen(Cur, "add-edit-screen")
                                   EXCEPT !.currentPasswordId = NULL],
                              "savepw", form, rnd))

\* edit-btn of an entry, then save-password-btn on the form it shows
EditPassword ==
    /\ CanShow("dashboard-screen")
    /\ pc["savepw"] = "idle"
    /\ CanStart
    /\ \E i \in DOMAIN vault.passwords, form \in EditForms, rnd \in Rnd :
           Commit(savepwClick([showScreen(Cur, "add-edit-screen")
                                   EXCEPT !.currentPasswordId =
                                              vault.passwords[i].id],
                              "savepw", form, rnd))

SavePasswordDerived ==
    /\ pc["savepw"] = "pw_derive"
    /\ \E rnd \in Rnd : Commit(savepwDerived(Cur, "savepw", rnd))

SavePasswordEncrypted ==
    /\ pc["savepw"] = "pw_encrypt"
    /\ \E rnd \in Rnd : Commit(savepwEncrypted(Cur, "savepw", rnd))

\* view-btn of an entry, then authenticate-btn
ViewPassword ==
    /\ CanShow("dashboard-screen")
    /\ pc["view"] = "idle"
    /\ CanStart
    /\ \E i \in DOMAIN vault.passwords :
           Commit(viewClick(Cur, "view", vault.passwords[i].id))

ViewPasswordDerived ==
    /\ pc["view"] = "view_derive"
    /\ Commit(viewDerived(Cur, "view"))

ViewPasswordDecrypted ==
    /\ pc["view"] = "view_decrypt"
    /\ Commit(viewDecrypted(Cur, "view"))

\* auto-save-save-btn of the modal that showAutoSaveModal has opened
AutoSave ==
    /\ CanShow("dashboard-screen")
    /\ window.currentPendingSave # NULL
    /\ pc["autosave"] = "idle"
    /\ CanStart
    /\ Len(vault.passwords) < MaxPasswords
    /\ \E rnd \in Rnd : Commit(autosaveClick(Cur, "autosave", rnd))

AutoSaveEncrypted ==
    /\ pc["autosave"] = "as_encrypt"
    /\ \E rnd \in Rnd : Commit(autosaveEncrypted(Cur, "autosave", rnd))

\* a login form is submitted on a page: the content script sends
\* 'save-password' to the background worker
HandleSavePassword ==
    /\ storage.pendingSave = NULL
    /\ \E password \in Passwords :
           Commit(handleSavePassword(Cur, [domain |-> "site",
                                           username |-> "user",
                                           password |-> password]))

\* encryptData(plaintext, key)
EncryptData ==
    /\ io # NULL
    /\ io.stage = "input"
    /\ \E iv \in IVs :
           io' = [stage |-> "sealed", plaintext |-> io.plaintext,
                  key |-> io.key,
                  sealed |-> encryptDataB64(io.plaintext, io.key, iv),
                  log |-> {[key |-> io.key, iv |-> iv,
                            data |-> encode(io.plaintext),
                            encryptedData |->
                                subtleEncrypt(io.key, iv,
                                              encode(io.plaintext))]}]
    /\ UNCHANGED <<vault, masterKey, sessionActive, sessionTimeoutTimer,
                   failedPinAttempts, pinLockoutUntil, currentScreen,
                   createStage, timers, storage, pc, loc, requireMnemonic,
                   loggedOut, wiped, restarted, sent, alerted,
                   currentPasswordId, window, userAuditLogs, totalLogs,
                   IPFS_CONFIG, returned, downloads>>

\* decryptData(ciphertext, ivBase64, key) on the envelope or on an altered
\* one, with the key of the encryption or with another
DecryptData ==
    /\ io # NULL
    /\ io.stage = "sealed"
    /\ \E ciphertext \in Altered(io.sealed.ciphertext),
          ivBase64 \in Altered(io.sealed.iv), key \in CryptoKeys :
           io' = [stage |-> "opened", plaintext |-> io.plaintext,
                  key |-> io.key, sealed |-> io.sealed, log |-> io.log,
                  given |-> [ciphertext |-> ciphertext, iv |-> ivBase64,
                             key |-> key],
                  result |-> decryptDataB64(ciphertext, ivBase64, key,
                                            io.log)]
    /\ UNCHANGED <<vault, masterKey, sessionActive, sessionTimeoutTimer,
                   failedPinAttempts, pinLockoutUntil, currentScreen,
                   createStage, timers, storage, pc, loc, requireMnemonic,
                   loggedOut, wiped, restarted, sent, alerted,
                   currentPasswordId, window, userAuditLogs, totalLogs,
                   IPFS_CONFIG, returned, downloads>>

\* createUnlockToken(mnemonic, vaultSalt, pin)
CreateUnlockToken ==
    /\ io # NULL
    /\ io.stage = "input"
    /\ \E pinSalt \in PinSaltTexts, iv \in Nonces :
           io' = [stage |-> "created", mnemonic |-> io.mnemonic,
                  vaultSalt |-> io.vaultSalt, pin |-> io.pin,
                  token |-> createUnlockTokenBytes(io.mnemonic,
                                io.vaultSalt, io.pin, pinSalt, iv, DateNow)]
    /\ UNCHANGED <<vault, masterKey, sessionActive, sessionTimeoutTimer,
                   failedPinAttempts, pinLockoutUntil, currentScreen,
                   createStage, timers, storage, pc, loc, requireMnemonic,
                   loggedOut, wiped, restarted, sent, alerted,
                   currentPasswordId, window, userAuditLogs, totalLogs,
                   IPFS_CONFIG, returned, downloads>>

\* decryptUnlockToken(tokenObject, pin) with the PIN of the token or with
\* another
DecryptUnlockToken ==
    /\ io # NULL
    /\ io.stage = "created"
    /\ \E pin \in PinTexts :
           io' = [stage |-> "opened", mnemonic |-> io.mnemonic,
                  vaultSalt |-> io.vaultSalt, pin |-> io.pin,
                  token |-> io.token, given |-> pin,
                  result |-> decryptUnlockTokenBytes(io.token, pin)]
    /\ UNCHANGED <<vault, masterKey, sessionActive, sessionTimeoutTimer,
                   failedPinAttempts, pinLockoutUntil, currentScreen,
                   createStage, timers, storage, pc, loc, requireMnemonic,
                   loggedOut, wiped, restarted, sent, alerted,
                   currentPasswordId, window, userAuditLogs, totalLogs,
                   IPFS_CONFIG, returned, downloads>>

\* deriveMasterKey(mnemonic, salt)
DeriveMasterKey ==
    /\ io # NULL
    /\ io.stage = "input"
    /\ io' = [stage |-> "derived", secret |-> io.mnemonic,
             salt |-> io.vaultSalt,
             result |-> deriveMasterKeyBytes(io.mnemonic, io.vaultSalt)]
    /\ UNCHANGED <<vault, masterKey, sessionActive, sessionTimeoutTimer,
                   failedPinAttempts, pinLockoutUntil, currentScreen,
                   createStage, timers, storage, pc, loc, requireMnemonic,
                   loggedOut, wiped, restarted, sent, alerted,
                   currentPasswordId, window, userAuditLogs, totalLogs,
                   IPFS_CONFIG, returned, downloads>>

\* deriveUnlockKey(pin, pinSalt) with the pinSalt of a stored token, or
\* of a stored token that has none
DeriveUnlockKey ==
    /\ io # NULL
    /\ io.stage = "input"
    /\ \E pinSalt \in PinSaltTexts \cup {<< >>} :
           io' = [stage |-> "derived", secret |-> io.pin, salt |-> pinSalt,
                  result |-> deriveUnlockKeyBytes(io.pin, pinSalt)]
    /\ UNCHANGED <<vault, masterKey, sessionActive, sessionTimeoutTimer,
                   failedPinAttempts, pinLockoutUntil, currentScreen,
                   createStage, timers, storage, pc, loc, requireMnemonic,
                   loggedOut, wiped, restarted, sent, alerted,
                   currentPasswordId, window, userAuditLogs, totalLogs,
                   IPFS_CONFIG, returned, downloads>>

\* one more encryptData(plaintext, key); log keeps its calls in order
EncryptDataCall ==
    /\ io # NULL
    /\ io.stage = "calls"
    /\ Len(io.log) < MaxCalls
    /\ \E plaintext \in {s \in Strings16 : Len(s) <= 1}, key \in CryptoKeys :
           io' = [stage |-> "calls", drawn |-> io.drawn + 1,
                  log |-> Append(io.log,
                              [plaintext |-> plaintext, key |-> key,
                               sealed |-> encryptDataB64(plaintext, key,
                                              getRandomValues(io.drawn))])]
    /\ UNCHANGED <<vault, masterKey, sessionActive, sessionTimeoutTimer,
                   failedPinAttempts, pinLockoutUntil, currentScreen,
                   createStage, timers, storage, pc, loc, requireMnemonic,
                   loggedOut, wiped, restarted, sent, alerted,
                   currentPasswordId, window, userAuditLogs, totalLogs,
                   IPFS_CONFIG, returned, downloads>>

\* generateSalt() between two encryptions takes a value of the generator
GenerateSaltCall ==
    /\ io # NULL
    /\ io.stage = "calls"
    /\ io.drawn < 2 * MaxCalls
    /\ io' = [io EXCEPT !.drawn = @ + 1]
    /\ UNCHANGED <<vault, masterKey, sessionActive, sessionTimeoutTimer,
                   failedPinAttempts, pinLockoutUntil, currentScreen,
                   createStage, timers, storage, pc, loc, requireMnemonic,
                   loggedOut, wiped, restarted, sent, alerted,
                   currentPasswordId, window, userAuditLogs, totalLogs,
                   IPFS_CONFIG, returned, downloads>>

\* export-vault-btn on the settings screen
ExportVault ==
    /\ CanShow("settings-screen")
    /\ pc["export"] = "idle"
    /\ CanStart
    /\ \E rnd \in Rnd :
           Commit(exportClick(showScreen(Cur, "settings-screen"), "export",
                              rnd))

ExportEncrypted ==
    /\ pc["export"] = "exp_encrypt"
    /\ Commit(exportEncrypted(Cur, "export"))

\* import-vault-btn, and a downloaded export chosen in the file dialog
ImportFile ==
    /\ CanShow("settings-screen")
    /\ pc["import"] = "idle"
    /\ CanStart
    /\ \E file \in downloads :
           Commit(importChange(showScreen(Cur, "settings-screen"), "import",
                               file))

ImportLoaded ==
    /\ pc["import"] = "imp_read"
    /\ Commit(importLoaded(Cur, "import"))

ImportDecrypted ==
    /\ pc["import"] = "imp_decrypt"
    /\ \E confirmed \in BOOLEAN, rnd \in Rnd :
           Commit(importDecrypted(Cur, "import", confirmed, rnd))

\* a caller enables the backup with a token, or disables it
EnableIPFSBackup ==
    /\ \E token \in Tokens : Commit(enableIPFSBackup(Cur, token))

DisableIPFSBackup ==
    /\ IPFS_CONFIG.enabled
    /\ Commit(disableIPFSBackup(Cur))

\* a caller hands the stored vault to uploadToIPFS
UploadToIPFS ==
    /\ pc["upload"] = "idle"
    /\ storage.vault # NULL
    /\ Commit(uploadToIPFS(Cur, "upload", storage.vault))

UploadFetched ==
    /\ pc["upload"] = "up_fetch"
    /\ \E response \in FetchFates : Commit(uploadFetched(Cur, "upload",
                                                          response))

UploadText ==
    /\ pc["upload"] = "up_text"
    /\ \E read \in BOOLEAN : Commit(uploadText(Cur, "upload", read))

UploadJson ==
    /\ pc["upload"] = "up_json"
    /\ \E body \in UploadBodies : Commit(uploadJson(Cur, "upload", body))

UploadStored ==
    /\ pc["upload"] = "up_set"
    /\ \E written \in BOOLEAN :
           Commit(uploadStored(Cur, "upload", written))

DownloadFromIPFS ==
    /\ pc["download"] = "idle"
    /\ \E cid \in CidInputs : Commit(downloadFromIPFS(Cur, "download", cid))

DownloadFetched ==
    /\ pc["download"] = "down_fetch"
    /\ \E response \in FetchFates :
           Commit(downloadFetched(Cur, "download", response))

DownloadJson ==
    /\ pc["download"] = "down_json"
    /\ \E body \in DownloadBodies :
           Commit(downloadJson(Cur, "download", body))

\* an account sends a logVault transaction
LogVault ==
    /\ totalLogs < MaxLogs
    /\ \E msgSender \in Addresses, _hash \in Hashes,
          _operation \in Operations, blockTimestamp \in BlockTimes :
           /\ blockTimestamp >= LatestBlockTime(userAuditLogs, Addresses)
           /\ Commit(logVault(Cur, msgSender, _hash, _operation,
                              blockTimestamp))

\* the popup window loses focus and closes; the user opens it again
Restart ==
    /\ Commit(reopenPopup(Cur))

LoadVaultGot(p) ==
    /\ pc[p] = "lv_get"
    /\ \E rnd \in Rnd : Commit(loadVaultGot(Cur, p, rnd))

LoadVaultFingerprinted(p) ==
    /\ pc[p] = "lv_fp"
    /\ Commit(loadVaultFingerprinted(Cur, p))

LoadVaultDerived(p) ==
    /\ pc[p] = "lv_derive"
    /\ \E rnd \in Rnd : Commit(loadVaultDerived(Cur, p, rnd))

LoadVaultDecrypted(p) ==
    /\ pc[p] = "lv_decrypt"
    /\ \E rnd \in Rnd : Commit(loadVaultDecrypted(Cur, p, rnd))

Max(a, b) == IF a >= b THEN a ELSE b

\* the clock steps: five minutes, or up to the instant at which the lockout
\* ends or a timer is due
TickSteps ==
    {calculateLockoutDuration(5), pinLockoutUntil}
        \cup {timers[id].deadline : id \in DOMAIN timers}

\* d milliseconds pass: every timestamp comes d closer.  A timer that is
\* due runs before the clock passes it.
tick(s, d) ==
    [s EXCEPT !.pinLockoutUntil = Max(@ - d, 0),
              !.timers = [id \in DOMAIN s.timers |->
                             [s.timers[id] EXCEPT !.deadline = @ - d]]]

Tick ==
    /\ Idle
    /\ \E d \in TickSteps :
           /\ d > 0
           /\ \A id \in DOMAIN timers : timers[id].deadline >= d
           /\ tick(Cur, d) # Cur
           /\ Commit(tick(Cur, d))

Next ==
    \/ GenerateMnemonic
    \/ GenerateMnemonicDerived
    \/ ConfirmMnemonic
    \/ AuthMethodChange
    \/ ContinueDashboard
    \/ ContinueTokenCreated
    \/ ContinueTokenStored
    \/ RecoverSubmit
    \/ RecoverTokenCreated
    \/ RecoverTokenStored
    \/ \E p \in QuProcs : QuickUnlock(p)
    \/ \E p \in QuProcs : QuickUnlockGot(p)
    \/ \E p \in QuProcs : QuickUnlockDecrypted(p)
    \/ Logout
    \/ LogoutCleared
    \/ LockVaultBtn
    \/ \E p \in {"lock", "timer"} : LockVaultShown(p)
    \/ TimerFire
    \/ TrackActivity
    \/ SessionTimeoutSelect
    \/ ConfirmChangePin
    \/ ChangePinGot
    \/ ChangePinDecrypted
    \/ ChangePinTokenCreated
    \/ ChangePinTokenStored
    \/ SyncNow
    \/ AuditToggle
    \/ SavePassword
    \/ EditPassword
    \/ SavePasswordDerived
    \/ SavePasswordEncrypted
    \/ ViewPassword
    \/ ViewPasswordDerived
    \/ ViewPasswordDecrypted
    \/ AutoSave
    \/ AutoSaveEncrypted
    \/ HandleSavePassword
    \/ \E p \in SaveProcs : SaveVaultDerived(p)
    \/ \E p \in SaveProcs : SaveVaultEncrypted(p)
    \/ \E p \in SaveProcs : SaveVaultStored(p)
    \/ \E p \in SaveProcs : SaveVaultAudited(p)
    \/ \E p \in {"rec", "qu1", "qu2"} : LoadVaultGot(p)
    \/ \E p \in {"rec", "qu1", "qu2"} : LoadVaultFingerprinted(p)
    \/ \E p \in {"rec", "qu1", "qu2"} : LoadVaultDerived(p)
    \/ \E p \in {"rec", "qu1", "qu2"} : LoadVaultDecrypted(p)
    \/ Restart
    \/ ExportVault
    \/ ExportEncrypted
    \/ ImportFile
    \/ ImportLoaded
    \/ ImportDecrypted
    \/ EnableIPFSBackup
    \/ DisableIPFSBackup
    \/ UploadToIPFS
    \/ UploadFetched
    \/ UploadText
    \/ UploadJson
    \/ UploadStored
    \/ DownloadFromIPFS
    \/ DownloadFetched
    \/ DownloadJson
    \/ LogVault
    \/ EncryptData
    \/ DecryptData
    \/ Tick

Spec == Init /\ [][Next]_vars

\* the user unlocks with the PIN (twice at once, too), locks, recovers with
\* the phrase and logs out
NextUnlock ==
    \/ \E p \in QuProcs : QuickUnlock(p)
    \/ \E p \in QuProcs : QuickUnlockGot(p)
    \/ \E p \in QuProcs : QuickUnlockDecrypted(p)
    \/ RecoverSubmit
    \/ RecoverTokenCreated
    \/ RecoverTokenStored
    \/ \E p \in {"rec", "qu1", "qu2"} : LoadVaultGot(p)
    \/ \E p \in {"rec", "qu1", "qu2"} : LoadVaultFingerprinted(p)
    \/ \E p \in {"rec", "qu1", "qu2"} : LoadVaultDerived(p)
    \/ \E p \in {"rec", "qu1", "qu2"} : LoadVaultDecrypted(p)
    \/ Logout
    \/ LogoutCleared
    \/ LockVaultBtn
    \/ \E p \in {"lock", "timer"} : LockVaultShown(p)
    \/ TimerFire
    \/ Tick

SpecUnlock == Init /\ [][NextUnlock]_vars

\* the user unlocks with the PIN, changes the PIN in the settings and locks
NextChangePin ==
    \/ \E p \in QuProcs : QuickUnlock(p)
    \/ \E p \in QuProcs : QuickUnlockGot(p)
    \/ \E p \in QuProcs : QuickUnlockDecrypted(p)
    \/ \E p \in QuProcs : LoadVaultGot(p)
    \/ \E p \in QuProcs : LoadVaultFingerprinted(p)
    \/ \E p \in QuProcs : LoadVaultDerived(p)
    \/ \E p \in QuProcs : LoadVaultDecrypted(p)
    \/ ConfirmChangePin
    \/ ChangePinGot
    \/ ChangePinDecrypted
    \/ ChangePinTokenCreated
    \/ ChangePinTokenStored
    \/ SaveVaultDerived("chpin")
    \/ SaveVaultEncrypted("chpin")
    \/ SaveVaultStored("chpin")
    \/ LockVaultBtn
    \/ \E p \in {"lock", "timer"} : LockVaultShown(p)
    \/ TimerFire
    \/ Tick

SpecChangePin == Init /\ [][NextChangePin]_vars

\* the user unlocks with the PIN, is active or idle in the session, sets
\* the session timeout, locks and logs out
NextSession ==
    \/ \E p \in QuProcs : QuickUnlock(p)
    \/ \E p \in QuProcs : QuickUnlockGot(p)
    \/ \E p \in QuProcs : QuickUnlockDecrypted(p)
    \/ \E p \in QuProcs : LoadVaultGot(p)
    \/ \E p \in QuProcs : LoadVaultFingerprinted(p)
    \/ \E p \in QuProcs : LoadVaultDerived(p)
    \/ \E p \in QuProcs : LoadVaultDecrypted(p)
    \/ TrackActivity
    \/ SessionTimeoutSelect
    \/ SaveVaultDerived("select")
    \/ SaveVaultEncrypted("select")
    \/ SaveVaultStored("select")
    \/ Logout
    \/ LogoutCleared
    \/ LockVaultBtn
    \/ \E p \in {"lock", "timer"} : LockVaultShown(p)
    \/ TimerFire
    \/ Tick

SpecSession == Init /\ [][NextSession]_vars

\* the user unlocks with the PIN, adds a password and syncs to the backup
\* server, while a page submits a login form
NextBackup ==
    \/ QuickUnlock("qu1")
    \/ QuickUnlockDecrypted("qu1")
    \/ LoadVaultGot("qu1")
    \/ LoadVaultFingerprinted("qu1")
    \/ LoadVaultDerived("qu1")
    \/ LoadVaultDecrypted("qu1")
    \/ SyncNow
    \/ SavePassword
    \/ SavePasswordEncrypted
    \/ HandleSavePassword
    \/ \E p \in {"sync", "savepw"} : SaveVaultEncrypted(p)
    \/ \E p \in {"sync", "savepw"} : SaveVaultStored(p)

SpecBackup == Init /\ [][NextBackup]_vars

\* the user unlocks with the PIN, switches the audit log on and off and
\* locks
NextAudit ==
    \/ QuickUnlock("qu1")
    \/ QuickUnlockDecrypted("qu1")
    \/ LoadVaultGot("qu1")
    \/ LoadVaultFingerprinted("qu1")
    \/ LoadVaultDerived("qu1")
    \/ LoadVaultDecrypted("qu1")
    \/ AuditToggle
    \/ SaveVaultEncrypted("audit")
    \/ SaveVaultStored("audit")
    \/ SaveVaultAudited("audit")
    \/ LockVaultBtn
    \/ LockVaultShown("lock")

SpecAudit == Init /\ [][NextAudit]_vars

\* the user creates a vault, closes the popup, opens it again and recovers
NextRestart ==
    \/ GenerateMnemonic
    \/ GenerateMnemonicDerived
    \/ ConfirmMnemonic
    \/ AuthMethodChange
    \/ ContinueDashboard
    \/ ContinueTokenCreated
    \/ ContinueTokenStored
    \/ SaveVaultEncrypted("cont")
    \/ SaveVaultStored("cont")
    \/ Restart
    \/ RecoverSubmit
    \/ RecoverTokenCreated
    \/ RecoverTokenStored
    \/ LoadVaultGot("rec")
    \/ LoadVaultFingerprinted("rec")
    \/ LoadVaultDerived("rec")
    \/ LoadVaultDecrypted("rec")

SpecRestart == Init /\ [][NextRestart]_vars

\* quick-unlock-btn is clicked at any instant of a lockout, or after it
NextLockout ==
    \/ QuickUnlock("qu1")
    \/ QuickUnlockDecrypted("qu1")
    \/ LoadVaultGot("qu1")
    \/ LoadVaultFingerprinted("qu1")
    \/ LoadVaultDerived("qu1")
    \/ LoadVaultDecrypted("qu1")

SpecLockout == InitLockout /\ [][NextLockout]_vars

\* quick-unlock-btn is clicked during or after a lockout, and the popup is
\* closed and opened again at any moment
NextReopen ==
    \/ QuickUnlock("qu1")
    \/ QuickUnlockDecrypted("qu1")
    \/ LoadVaultGot("qu1")
    \/ LoadVaultFingerprinted("qu1")
    \/ LoadVaultDerived("qu1")
    \/ LoadVaultDecrypted("qu1")
    \/ Restart

SpecReopen == InitLockout /\ [][NextReopen]_vars

\* the user tries the recovery phrase and the PIN, one attempt after the
\* other or overlapping, right or wrong
NextRecover ==
    \/ RecoverSubmit
    \/ RecoverTokenCreated
    \/ RecoverTokenStored
    \/ QuickUnlock("qu1")
    \/ QuickUnlockDecrypted("qu1")
    \/ \E p \in {"rec", "qu1"} : LoadVaultGot(p)
    \/ \E p \in {"rec", "qu1"} : LoadVaultFingerprinted(p)
    \/ \E p \in {"rec", "qu1"} : LoadVaultDerived(p)
    \/ \E p \in {"rec", "qu1"} : LoadVaultDecrypted(p)

SpecRecover == Init /\ [][NextRecover]_vars

\* the contract alone: accounts send logVault transactions
NextChain ==
    \/ LogVault

SpecChain == Init /\ [][NextChain]_vars

\* ipfs.js alone: the backup is enabled and disabled while a vault is
\* uploaded and one is downloaded
NextIpfs ==
    \/ EnableIPFSBackup
    \/ DisableIPFSBackup
    \/ UploadToIPFS
    \/ UploadFetched
    \/ UploadText
    \/ UploadJson
    \/ UploadStored
    \/ DownloadFromIPFS
    \/ DownloadFetched
    \/ DownloadJson

SpecIpfs == Init /\ [][NextIpfs]_vars

\* crypto.js alone: one encryptData, then one decryptData
NextCrypto ==
    \/ EncryptData
    \/ DecryptData

SpecCrypto == InitCrypto /\ [][NextCrypto]_vars

\* crypto.js alone: a key derivation, or one createUnlockToken and then
\* one decryptUnlockToken
NextToken ==
    \/ CreateUnlockToken
    \/ DecryptUnlockToken
    \/ DeriveMasterKey
    \/ DeriveUnlockKey

SpecToken == InitToken /\ [][NextToken]_vars

\* crypto.js alone: encryptData called again and again
NextNonce ==
    \/ EncryptDataCall
    \/ GenerateSaltCall

SpecNonce == InitNonce /\ [][NextNonce]_vars

\* the popup as its DOMContentLoaded handler leaves it on store
Loaded(store) ==
    [vault |-> InitVault, masterKey |-> NULL, sessionActive |-> FALSE,
     sessionTimeoutTimer |-> 0, failedPinAttempts |-> 0,
     pinLockoutUntil |-> 0, currentScreen |-> DOMContentLoaded(store),
     createStage |-> "generate", now |-> DateNow, timers |-> << >>,
     storage |-> store, pc |-> [p \in Procs |-> "idle"],
     loc |-> [p \in Procs |-> LocInit], requireMnemonic |-> FALSE,
     loggedOut |-> FALSE, wiped |-> FALSE, restarted |-> FALSE,
     sent |-> {}, alerted |-> {}, currentPasswordId |-> NULL,
     window |-> WindowLoaded(store),
     userAuditLogs |-> [a \in Addresses |-> <<>>], totalLogs |-> 0,
     IPFS_CONFIG |-> initIPFSConfig(store), returned |-> {},
     downloads |-> {}, io |-> NULL]

\* the popup after the quick-unlock handler has run to its end with the
\* PIN of the installation and no other handler between its steps
Unlocked(store) ==
    LET rnd == CHOOSE r \in Rnd : TRUE
        clicked == quClick(Loaded(store), "qu1", "111111")
        called == quDecrypted(clicked, "qu1")
        got == loadVaultGot(called, "qu1", rnd)
        derived == loadVaultDerived(loadVaultFingerprinted(got, "qu1"),
                                    "qu1", rnd)
    IN  loadVaultDecrypted(derived, "qu1", rnd)

\* the session is open on an installed vault, with or without a login
\* that the background worker had left to be saved
InitEntries ==
    \E pendingSave \in {NULL} \cup [domain : {"site"}, username : {"user"},
                                    password : Passwords] :
        LET s == Unlocked([InstalledStorage
                               EXCEPT !.pendingSave = pendingSave])
        IN  /\ vault = s.vault
            /\ masterKey = s.masterKey
            /\ sessionActive = s.sessionActive
            /\ sessionTimeoutTimer = s.sessionTimeoutTimer
            /\ failedPinAttempts = s.failedPinAttempts
            /\ pinLockoutUntil = s.pinLockoutUntil
            /\ currentScreen = s.currentScreen
            /\ createStage = s.createStage
            /\ timers = s.timers
            /\ storage = s.storage
            /\ pc = s.pc
            /\ loc = s.loc
            /\ requireMnemonic = s.requireMnemonic
            /\ loggedOut = s.loggedOut
            /\ wiped = s.wiped
            /\ restarted = s.restarted
            /\ sent = {}
            /\ alerted = {}
            /\ currentPasswordId = s.currentPasswordId
            /\ window = s.window
            /\ userAuditLogs = s.userAuditLogs
            /\ totalLogs = s.totalLogs
            /\ IPFS_CONFIG = s.IPFS_CONFIG
            /\ returned = {}
            /\ downloads = s.downloads
            /\ io = NULL

\* in the open session the user adds, edits and views entries, saves the
\* login the modal offers, and locks
NextEntries ==
    \/ SavePassword
    \/ EditPassword
    \/ SavePasswordDerived
    \/ SavePasswordEncrypted
    \/ ViewPassword
    \/ ViewPasswordDerived
    \/ ViewPasswordDecrypted
    \/ AutoSave
    \/ AutoSaveEncrypted
    \/ \E p \in {"savepw", "autosave"} : SaveVaultEncrypted(p)
    \/ \E p \in {"savepw", "autosave"} : SaveVaultStored(p)
    \/ LockVaultBtn
    \/ LockVaultShown("lock")

SpecEntries == InitEntries /\ [][NextEntries]_vars

\* in the open session the user adds entries, exports the vault and
\* imports a file that an export has written
NextExport ==
    \/ SavePassword
    \/ SavePasswordEncrypted
    \/ SaveVaultEncrypted("savepw")
    \/ SaveVaultStored("savepw")
    \/ ExportVault
    \/ ExportEncrypted
    \/ ImportFile
    \/ ImportLoaded
    \/ ImportDecrypted

SpecExport == InitEntries /\ [][NextExport]_vars

(* ------------------------------ properties ----------------------------- *)

\* the handlers that verify a PIN against the stored unlock token
PinProcs == QuProcs \cup {"chpin"}

\* p takes the step that handles the result of decryptUnlockToken, and the
\* token did not open
PinFailure(p) ==
    /\ pc[p] \in {"qu_decrypt", "chpin_decrypt"}
    /\ ~loc[p].out.ok
    /\ pc'[p] # pc[p]

\* the callback of an idle timer runs
TimerCallback == pc["timer"] = "idle" /\ pc'["timer"] # "idle"

\* C1: in quick unlock the failure that brings failedPinAttempts to 3 or 4
\* sets pinLockoutUntil to 30 seconds after the failure, the one that brings
\* it to 5..9 sets it to 5 minutes after the failure; while the lockout
\* lasts a click on quick unlock ends the handler before storage is read or
\* the PIN evaluated.
C1_LockoutEscalation ==
    [][\A p \in QuProcs :
          /\ PinFailure(p) =>
                /\ failedPinAttempts' \in {3, 4} =>
                       pinLockoutUntil' = DateNow + 30 * 1000
                /\ failedPinAttempts' \in 5..9 =>
                       pinLockoutUntil' = DateNow + 5 * 60 * 1000
          /\ (pinLockoutUntil > DateNow /\ pc[p] = "idle") =>
                pc'[p] = "idle"]_vars

\* the fifth failure has set the five-minute lockout
C1_Witness ==
    /\ failedPinAttempts = 5
    /\ pinLockoutUntil = DateNow + 5 * 60 * 1000
    /\ checkPinLockout(Cur).locked

\* C2: the failed quick-unlock attempt that brings the count to 10 removes
\* the stored unlock token and clears vault.mnemonic, vault.pin and
\* masterKey; a quick-unlock attempt that finds no token verifies no PIN and
\* shows the recovery screen.
C2_TenthFailure ==
    [][\A p \in QuProcs :
          /\ (PinFailure(p) /\ failedPinAttempts = 9) =>
                /\ storage'.token = NULL
                /\ vault'.mnemonic = ""
                /\ vault'.pin = ""
                /\ masterKey' = NULL
                /\ requireMnemonic'
          /\ (pc[p] = "idle" /\ pc'[p] # "idle" /\ storage.token = NULL) =>
                pc'[p] = "qu_get"
          /\ (pc[p] = "qu_get" /\ pc'[p] # "qu_get") =>
                /\ pc'[p] = "idle"
                /\ currentScreen' = "recover-vault-screen"
                /\ sessionActive' = sessionActive]_vars

\* the tenth failure has happened: the token is gone, the secrets are
\* cleared and the recovery screen is shown
C2_Witness ==
    /\ requireMnemonic
    /\ storage.token = NULL
    /\ vault.mnemonic = "" /\ vault.pin = "" /\ masterKey = NULL
    /\ currentScreen = "recover-vault-screen"
    /\ Idle

\* C3: once the tenth failure has destroyed the unlock token, no step of a
\* quick-unlock handler sets sessionActive to true until recovery or vault
\* creation has stored a new token.
C3_NoUnlockAfterDestruction ==
    [][requireMnemonic =>
          \A p \in QuProcs :
              pc'[p] # pc[p] => (sessionActive' => sessionActive)]_vars

\* C4: decryptUnlockToken is only called by a handler that has consulted
\* checkPinLockout before and was told locked = false.
C4_LockoutConsulted ==
    \A p \in PinProcs :
        pc[p] \in {"qu_decrypt", "chpin_decrypt"} =>
            /\ loc[p].lockout # NULL
            /\ ~loc[p].lockout.locked

\* C5: every failed verification of a PIN against the unlock token, in quick
\* unlock and in change-PIN, adds exactly 1 to failedPinAttempts (the tenth
\* failure then clears the session, which sets the counter back to 0).
C5_EveryFailureCounts ==
    [][\A p \in PinProcs :
          PinFailure(p) =>
              \/ failedPinAttempts' = failedPinAttempts + 1
              \/ /\ failedPinAttempts = 9
                 /\ failedPinAttempts' = 0
                 /\ requireMnemonic']_vars

\* C6: a quick-unlock attempt whose PIN opened the unlock token ends with
\* failedPinAttempts = 0 and pinLockoutUntil = 0.
C6_OpenedTokenResets ==
    [][\A p \in QuProcs :
          (pc[p] \in {"lv_get", "lv_fp", "lv_derive", "lv_decrypt"}
               /\ pc'[p] = "idle") =>
              /\ failedPinAttempts' = 0
              /\ pinLockoutUntil' = 0]_vars

\* C7: change-PIN creates and writes the new unlock token only after
\* decryptUnlockToken opened the stored token with the current PIN; when the
\* verification fails the handler ends and the stored token, the stored
\* vault and vault.pin are as they were.
C7_ChangePinVerifiesFirst ==
    [][LET p == "chpin" IN
       /\ (pc[p] # "chpin_token" /\ pc'[p] = "chpin_token") =>
              pc[p] = "chpin_decrypt" /\ loc[p].out.ok
       /\ (pc'[p] # pc[p] /\ storage'.token # storage.token) =>
              pc[p] = "chpin_token"
       /\ (pc'[p] # pc[p]
              /\ pc[p] \in {"idle", "chpin_get", "chpin_decrypt"}) =>
              storage' = storage /\ vault'.pin = vault.pin
       /\ PinFailure(p) => pc'[p] = "idle"]_vars

\* change-PIN has verified a wrong current PIN
C7_Witness ==
    /\ pc["chpin"] = "chpin_decrypt"
    /\ ~loc["chpin"].out.ok
    /\ storage.token # NULL

\* C8: in an active session with sessionTimeout = N > 0 and no handler
\* suspended, the idle timer is pending and due at most N minutes from now
\* (the clock cannot pass a due timer), and its callback locks the vault:
\* sessionActive false, masterKey null, vault.mnemonic empty.
C8_IdleLock ==
    /\ [](sessionActive /\ vault.sessionTimeout > 0 /\ Idle =>
              /\ sessionTimeoutTimer \in DOMAIN timers
              /\ timers[sessionTimeoutTimer].deadline
                     <= DateNow + vault.sessionTimeout * 60 * 1000)
    /\ [][TimerCallback =>
              /\ ~sessionActive'
              /\ masterKey' = NULL
              /\ vault'.mnemonic = ""]_vars

\* the idle timer has fired and locked the vault
C8_Witness ==
    /\ pc["timer"] = "lock_get"
    /\ ~sessionActive
    /\ masterKey = NULL
    /\ vault.mnemonic = ""

\* C9: an activity signal in an active session leaves exactly the timer it
\* armed, due the full sessionTimeout from now (none when the timeout is
\* 0), and a timer armed by an activity signal does not fire earlier than
\* sessionTimeout minutes after it.
C9_ActivityRearms ==
    [][/\ TrackActivity =>
              IF vault.sessionTimeout > 0
              THEN /\ DOMAIN timers' = {sessionTimeoutTimer'}
                   /\ timers'[sessionTimeoutTimer'].deadline
                          = DateNow + vault.sessionTimeout * 60 * 1000
              ELSE timers' = <<>>
       /\ TimerCallback =>
              \A id \in (DOMAIN timers) \ (DOMAIN timers') :
                  timers[id].activity =>
                      timers[id].delay
                          >= vault.sessionTimeout * 60 * 1000]_vars

\* C10: with sessionTimeout = 0 no idle timer is pending in an active
\* session at rest, the select handler that set it to 0 leaves no timer
\* behind, and no timer callback locks a session whose sessionTimeout is 0.
C10_NeverLockedWhenDisabled ==
    /\ [](sessionActive /\ vault.sessionTimeout = 0 /\ Idle =>
              timers = <<>>)
    /\ [][/\ (pc["select"] # "idle" /\ pc'["select"] = "idle"
                  /\ vault.sessionTimeout = 0) => timers' = <<>>
          /\ TimerCallback => vault.sessionTimeout # 0]_vars

\* C11: lockVault, started by lock-vault-btn or by the idle timer, clears
\* masterKey and vault.mnemonic, sets sessionActive to false, leaves no
\* timer pending and leaves chrome.storage as it was; it reads the unlock
\* token of that storage, and after the read it shows the quick-unlock
\* screen if there was a token and the recovery screen otherwise.
C11_LockVaultFrame ==
    [][\A p \in {"lock", "timer"} :
          /\ (pc[p] = "idle" /\ pc'[p] = "lock_get") =>
                /\ masterKey' = NULL
                /\ vault'.mnemonic = ""
                /\ ~sessionActive'
                /\ timers' = <<>>
                /\ storage' = storage
                /\ loc'[p].token = storage.token
          /\ (pc[p] = "lock_get" /\ pc'[p] # "lock_get") =>
                /\ pc'[p] = "idle"
                /\ storage' = storage
                /\ currentScreen' = IF loc[p].token # NULL
                                    THEN "quick-unlock-screen"
                                    ELSE "recover-vault-screen"]_vars

\* the user has locked an active session whose idle timer was pending
C11_Witness ==
    /\ pc["lock"] = "lock_get"
    /\ loc["lock"].token # NULL
    /\ masterKey = NULL
    /\ vault.mnemonic = ""
    /\ ~sessionActive
    /\ timers = <<>>
    /\ sessionTimeoutTimer = 0

\* C12: once a log out has completed, no unlock token is in storage, and
\* sessionActive is set to true only by a step of the recovery handler or
\* of vault creation, whatever handlers were in flight when log out ran.
C12_LogoutForcesRecovery ==
    /\ [](loggedOut => storage.token = NULL)
    /\ [][(loggedOut /\ ~sessionActive /\ sessionActive') =>
              (pc'["rec"] # pc["rec"] \/ pc'["cont"] # pc["cont"])]_vars

\* C13: after lockVault or clearSession has wiped the memory and until a
\* handler sets sessionActive again, masterKey is null and vault.mnemonic
\* is empty whenever no handler is suspended.
C13_MemoryStaysWiped ==
    (wiped /\ Idle) => (masterKey = NULL /\ vault.mnemonic = "")

\* C17: the step of a recovery or quick-unlock handler that sets
\* sessionActive to true follows a decryption of the stored vault under the
\* key derived from the phrase of that attempt (the phrase typed, or the
\* phrase inside the token its PIN opened).
C17_OwnCredentialDecrypts ==
    [][\A p \in {"rec", "qu1", "qu2"} :
          (pc'[p] # pc[p] /\ ~sessionActive /\ sessionActive') =>
              /\ loc[p].stored # NULL
              /\ loc[p].stored.ciphertext.key
                     = deriveMasterKey(loc[p].mnemonic, loc[p].stored.salt)]_vars

\* what can be read without a key in an item of chrome.storage.local
PlainOfVault(storedVault) ==
    IF storedVault = NULL THEN {} ELSE {storedVault.iv, storedVault.salt}

PlainOfToken(unlockToken) ==
    IF unlockToken = NULL
    THEN {}
    ELSE {unlockToken.pinSalt, unlockToken.encryptedToken.iv}

PlainOfPendingSave(pendingSave) ==
    IF pendingSave = NULL
    THEN {}
    ELSE {pendingSave.domain, pendingSave.username, pendingSave.password}

\* C14: nothing in chrome.storage.local holds the recovery phrase or a
\* password in plaintext: the stored token is sealed under a key derived
\* from the PIN, the stored vault under a master key, and no other item
\* holds a phrase or a password.
C14_NoPlaintextSecretStored ==
    /\ (PlainOfVault(storage.vault) \cup PlainOfToken(storage.token)
            \cup PlainOfPendingSave(storage.pendingSave))
           \cap (Mnemonics \cup Passwords) = {}
    /\ storage.token # NULL =>
           storage.token.encryptedToken.ciphertext.key.kind = "unlock"
    /\ storage.vault # NULL => storage.vault.ciphertext.key.kind = "master"

\* C15: every payload handed to the backup server or to the audit contract
\* is a digest of the stored envelope or the envelope itself, and none
\* carries the recovery phrase.
C15_NoPlaintextPhraseSent ==
    \A m \in sent :
        /\ m.to = "ledger" => m.hash.kind = "keccak256"
        /\ m.to = "backup" => /\ m.mnemonic \notin Mnemonics
                              /\ "ciphertext" \in DOMAIN m

C18_KeyStableAcrossRestart ==
    [][LET p == "rec"
           sv == storage.vault
           \* the handler resumes (the popup is not closed under it)
           moved == pc'[p] # pc[p] /\ ~(pc'[p] = "idle" /\ restarted')
       IN  (/\ restarted
            /\ pc[p] # "idle"
            /\ \A q \in Procs \ {p} : pc[q] = "idle"
            /\ sv # NULL
            /\ sv.ciphertext.key.secret = loc[p].mnemonic) =>
               /\ (pc[p] = "lv_get" /\ moved) =>
                      /\ pc'[p] = "lv_fp"
                      /\ sv.salt = sv.ciphertext.key.salt
                      /\ vault'.salt = sv.salt
               /\ (pc[p] = "lv_fp" /\ moved) =>
                      /\ pc'[p] = "lv_derive"
                      /\ loc'[p].dk = sv.ciphertext.key
               /\ (pc[p] = "lv_derive" /\ moved) =>
                      /\ pc'[p] = "lv_decrypt"
                      /\ masterKey' = sv.ciphertext.key
                      /\ loc'[p].out = [ok |-> TRUE,
                                        plain |-> sv.ciphertext.plain]
               /\ (pc[p] = "lv_decrypt" /\ moved) =>
                      /\ pc'[p] \in {"rec_token", "idle"}
                      /\ pc'[p] = "idle" => sessionActive'
                      /\ vault'.mnemonic = loc[p].mnemonic
                      /\ vault'.pin = sv.ciphertext.plain.pin
                      /\ vault'.passwords = sv.ciphertext.plain.passwords
                      /\ vault'.backupIP = sv.ciphertext.plain.backupIP
                      /\ vault'.auditEnabled
                             = sv.ciphertext.plain.auditEnabled
                      /\ vault'.salt = sv.ciphertext.plain.salt
                      /\ vault'.sessionTimeout
                             = sv.ciphertext.plain.sessionTimeout]_vars

\* a vault created in this run with the PIN "222222" has been decrypted by
\* the recovery that followed the reopening
C18_Witness ==
    /\ restarted
    /\ pc["rec"] = "rec_token"
    /\ vault.pin = "222222"
    /\ vault.mnemonic = "M1"
    /\ masterKey = storage.vault.ciphertext.key

\* C19: decryptData applied to the ciphertext and the iv that
\* encryptData(P, K) returned, with the same K, returns P.
C19_RoundTrip ==
    (/\ io # NULL
     /\ io.stage = "opened"
     /\ io.given = [ciphertext |-> io.sealed.ciphertext,
                    iv |-> io.sealed.iv, key |-> io.key]) =>
        (io.result.ok /\ io.result.plaintext = io.plaintext)

\* C20: decryptData returns a plaintext only when it is given the
\* ciphertext, the iv and the key of the encryption; with another key or
\* with an altered ciphertext or iv it throws.
C20_OnlyExactTripleOpens ==
    (io # NULL /\ io.stage = "opened" /\ io.result.ok) =>
        io.given = [ciphertext |-> io.sealed.ciphertext,
                    iv |-> io.sealed.iv, key |-> io.key]

\* C29: the alerts shown when quick unlock fails on a wrong PIN are the
\* alerts shown when recovery fails on a wrong recovery phrase.
C29_SameFailureMessage ==
    [][LET shownOnWrongPhrase == {[text |-> FailedToDecrypt, seconds |-> 0],
                                  [text |-> NoVaultFound, seconds |-> 0]}
       IN  /\ (/\ pc["rec"] = "lv_decrypt"
               /\ ~loc["rec"].out.ok
               /\ pc'["rec"] = "idle") => alerted' = shownOnWrongPhrase
           /\ \A p \in QuProcs :
                  (/\ pc[p] = "qu_decrypt"
                   /\ ~loc[p].out.ok
                   /\ pc'[p] = "idle") => alerted' = shownOnWrongPhrase]_vars

\* C30: checkPinLockout, as quick-unlock-btn calls it with a well-formed
\* PIN, changes neither failedPinAttempts nor pinLockoutUntil nor the
\* stored token.  When pinLockoutUntil > now it returns locked with the
\* remaining time rounded up to whole seconds, at least 1 (the handler
\* shows it and returns); otherwise it returns locked = false and
\* remainingTime = 0 (the handler goes on).
C30_LockoutQuery ==
    [][LET p == "qu1"
           left == pinLockoutUntil - DateNow
           called == /\ pc[p] = "idle"
                     /\ pc'[p] # "idle" \/ alerted' # {}
                     /\ \A m \in alerted' :
                            m.text # "Please enter a valid 6-digit PIN"
       IN  called =>
              /\ failedPinAttempts' = failedPinAttempts
              /\ pinLockoutUntil' = pinLockoutUntil
              /\ storage' = storage
              /\ IF left > 0
                 THEN /\ pc'[p] = "idle"
                      /\ \E m \in alerted' :
                             /\ alerted' = {m}
                             /\ m.text = "Too many failed attempts. Please wait"
                             /\ m.seconds >= 1
                             /\ (m.seconds - 1) * 1000 < left
                             /\ left <= m.seconds * 1000
                 ELSE /\ pc'[p] # "idle"
                      /\ alerted' = {}
                      /\ loc'[p].lockout = [locked |-> FALSE,
                                            remainingTime |-> 0]]_vars

\* 1001 ms of lockout are left and the click is answered with 2 seconds
C30_Witness ==
    /\ pinLockoutUntil = 1001
    /\ pc["qu1"] = "idle"
    /\ alerted = {[text |-> "Too many failed attempts. Please wait",
                   seconds |-> 2]}

\* C24: at most one idle-timeout timer is pending, and none is pending
\* while sessionActive is false.
C24_SingleSessionTimer ==
    /\ Cardinality(DOMAIN timers) <= 1
    /\ ~sessionActive => timers = << >>

\* the timer of an open session has been re-armed by an activity signal
C24_Witness ==
    /\ sessionActive
    /\ sessionTimeoutTimer \in DOMAIN timers
    /\ timers[sessionTimeoutTimer].activity


\* the handlers whose call of deriveMasterKey has been issued and has not
\* resolved yet
DerivingMasterKey ==
    {p \in Procs : pc[p] \in {"lv_derive", "sv_derive", "gen_derive",
                              "pw_derive"}}

\* C23: handlers racing to derive the master key are serialized behind a
\* single in-flight derivation: while one call of deriveMasterKey is
\* pending no second call is started, and the key a completing derivation
\* caches is the key every handler that asked for one goes on with.
C23_SingleInFlightDerivation ==
    /\ Cardinality(DerivingMasterKey) <= 1
    /\ \A p \in DerivingMasterKey :
           masterKey # NULL => masterKey = loc[p].dk


\* C21: for every root secret M, vault salt S and PIN P,
\* decryptUnlockToken(createUnlockToken(M, S, P), P) returns M and S, and
\* decryptUnlockToken with any PIN other than P fails with an error.
C21_TokenOpensOnlyWithItsPin ==
    (io # NULL /\ io.stage = "opened") =>
        IF io.given = io.pin
        THEN /\ io.result.ok
             /\ io.result.value[NameMnemonic] = io.mnemonic
             /\ io.result.value[NameVaultSalt] = io.vaultSalt
        ELSE ~io.result.ok

\* C22: key derivation (deriveMasterKey, deriveUnlockKey) fails with an
\* error and yields no key whenever the secret or the salt is empty.
C22_EmptyInputRejected ==
    (io # NULL /\ io.stage = "derived"
         /\ (io.secret = << >> \/ io.salt = << >>)) =>
        ~io.result.ok


\* a stored unlock token is one whole result of createUnlockToken: the
\* three fields, the token data sealed under the key derived with the
\* pinSalt stored beside it, and a pinSalt that generateSalt returned for
\* a token, which is not the salt of the vault
WholeToken(unlockToken) ==
    \/ unlockToken = NULL
    \/ /\ DOMAIN unlockToken = {"encryptedToken", "pinSalt", "created"}
       /\ unlockToken.pinSalt \in PinSalts
       /\ unlockToken.encryptedToken.ok
       /\ unlockToken.encryptedToken.ciphertext.key.kind = "unlock"
       /\ unlockToken.encryptedToken.ciphertext.key.salt
              = unlockToken.pinSalt
       /\ unlockToken.pinSalt
              # unlockToken.encryptedToken.ciphertext.plain.vaultSalt

\* C27: storage holds at most one unlock token; every write replaces the
\* whole record {encryptedToken, pinSalt, created} by the result of one
\* createUnlockToken, and the pinSalt of every token was generated for
\* that token and is not the vault salt.
C27_OneWholeToken ==
    /\ [](/\ WholeToken(storage.token)
          /\ (storage.token # NULL /\ storage.vault # NULL) =>
                 storage.token.pinSalt # storage.vault.salt
          /\ \A k \in DOMAIN storage \ {"token"} :
                 storage[k] # NULL => "pinSalt" \notin DOMAIN storage[k])
    /\ [][storage'.token # storage.token =>
              \/ storage'.token = NULL
              \/ \E p \in Procs :
                     /\ pc[p] # pc'[p]
                     /\ storage'.token = loc[p].out]_vars

\* the change of the PIN has replaced the token of the installation
C27_Witness ==
    /\ storage.token # NULL
    /\ storage.token # InstalledStorage.token
    /\ pc["chpin"] = "idle"


\* C28: no two encryption operations under the same key use the same
\* nonce: each encryptData call seals under a nonce generated in that
\* call and returns that nonce beside the ciphertext.
C28_NonceNeverReused ==
    (io # NULL /\ io.stage = "calls") =>
        \A i, j \in DOMAIN io.log :
            (i # j /\ io.log[i].key = io.log[j].key) =>
                /\ io.log[i].sealed.iv # io.log[j].sealed.iv
                /\ io.log[i].sealed.ciphertext # io.log[j].sealed.ciphertext

\* the same plaintext was encrypted twice under the same key
C28_Witness ==
    /\ io # NULL
    /\ io.stage = "calls"
    /\ Len(io.log) >= 2
    /\ io.log[1].key = io.log[2].key
    /\ io.log[1].plaintext = io.log[2].plaintext


\* C25: every credential entry in vault.passwords, whichever operation
\* added or last modified it (manual add, edit, auto-save), carries its
\* secret as an envelope under the master key, in the field encrypted
\* that the view operation reads, and the view operation decrypts it to
\* the secret that was entered.
C25_EveryEntryEnveloped ==
    /\ [](\A i \in DOMAIN vault.passwords :
              /\ "encrypted" \in DOMAIN vault.passwords[i]
              /\ vault.passwords[i].encrypted.ciphertext.key.kind = "master"
              /\ vault.passwords[i].encrypted.ciphertext.plain \in Passwords)
    /\ [][(pc["view"] = "view_decrypt" /\ pc'["view"] = "idle"
              /\ sessionActive) =>
              /\ loc["view"].out.ok
              /\ loc["view"].out.plain \in Passwords]_vars

\* a step of the save-password-btn handler that edits an entry with the
\* placeholder left in the password field
PlaceholderStep ==
    /\ pc'["savepw"] # pc["savepw"]
    /\ loc'["savepw"].form # NULL
    /\ loc'["savepw"].form.password = Placeholder
    /\ currentPasswordId' # NULL

\* the fields of an entry that a placeholder edit may write
EditedFields == {"website", "username", "notes", "updated"}

\* C26: saving an edit whose secret field still holds the placeholder
\* updates only the site, login, notes and updated timestamp of that
\* entry: its secret envelope and every other entry are left unchanged,
\* and the handler neither derives a key for the entry nor encrypts or
\* decrypts its secret.
C26_PlaceholderEditFrame ==
    [][PlaceholderStep =>
          /\ pc'["savepw"] \notin {"pw_derive", "pw_encrypt"}
          /\ loc'["savepw"].dk = loc["savepw"].dk
          /\ DOMAIN vault'.passwords = DOMAIN vault.passwords
          /\ \A i \in DOMAIN vault.passwords :
                 LET old == vault.passwords[i]
                     new == vault'.passwords[i]
                 IN  IF pc["savepw"] = "idle"
                        /\ i = findIndex(vault.passwords, currentPasswordId')
                     THEN /\ DOMAIN new = DOMAIN old \cup {"updated"}
                          /\ \A k \in DOMAIN old \ EditedFields :
                                 new[k] = old[k]
                          /\ new.website = loc'["savepw"].form.website
                          /\ new.username = loc'["savepw"].form.username
                          /\ new.notes = loc'["savepw"].form.notes
                     ELSE new = old]_vars

\* a manually added entry was edited with the placeholder left in place:
\* it has the new site and notes, both timestamps and its envelope
C26_Witness ==
    /\ pc["savepw"] = "idle"
    /\ \E i \in DOMAIN vault.passwords :
           /\ {"created", "updated", "encrypted"}
                  \subseteq DOMAIN vault.passwords[i]
           /\ vault.passwords[i].website = "site2"
           /\ vault.passwords[i].notes = "note"
           /\ vault.passwords[i].encrypted.ciphertext.plain \in Passwords

\* C38: a quick-unlock click that is rejected because a lockout is active,
\* or because the PIN entered is not 6 characters long, changes neither
\* failedPinAttempts nor pinLockoutUntil nor the stored token.
RejectedClick(p) ==
    /\ pc[p] = "idle"
    /\ pc'[p] = "idle"
    /\ \E m \in alerted' :
           m.text \in {"Please enter a valid 6-digit PIN",
                       "Too many failed attempts. Please wait"}

C38_RejectedClickFrame ==
    [][RejectedClick("qu1") =>
           /\ failedPinAttempts' = failedPinAttempts
           /\ pinLockoutUntil' = pinLockoutUntil
           /\ storage'.token = storage.token]_vars

\* a 5-character PIN was rejected while 999 ms of a lockout were left
C38_Witness ==
    /\ pc["qu1"] = "idle"
    /\ alerted = {[text |-> "Please enter a valid 6-digit PIN",
                   seconds |-> 0]}
    /\ failedPinAttempts = 3
    /\ pinLockoutUntil = 999
    /\ storage.token = InstalledStorage.token

\* C34: failedPinAttempts and pinLockoutUntil keep their values when the
\* popup is closed and opened again: neither a running lockout nor the
\* count of failures is cleared by the restart.
C34_CountersSurviveRestart ==
    [][(~restarted /\ restarted') =>
           /\ failedPinAttempts' = failedPinAttempts
           /\ pinLockoutUntil' = pinLockoutUntil]_vars

\* C35: with the vault of the phrase M1 in storage, a recovery attempt
\* that supplies M1 ends with the session active, whatever recovery or
\* quick-unlock attempts failed before it in the same process.
C35_RightPhraseRecovers ==
    [][(/\ pc["rec"] # "idle"
        /\ pc'["rec"] = "idle"
        /\ loc["rec"].mnemonic = "M1"
        /\ loc["rec"].stored = InstalledStorage.vault) =>
           sessionActive']_vars

\* C36: whenever masterKey is non-null and no derivation of a master key
\* is in flight, masterKey is the key derived from the current
\* vault.mnemonic and vault.salt.
C36_KeyOfCurrentCredentials ==
    (masterKey # NULL /\ DerivingMasterKey = {}) =>
        masterKey = deriveMasterKey(vault.mnemonic, vault.salt)

\* C37: every unlock token written to storage wraps a non-empty root
\* secret and the vault salt whose derived key opens the vault that is in
\* storage at that moment, under any interleaving of the handlers.
C37_TokenOpensStoredVault ==
    [][(storage'.token # storage.token /\ storage'.token # NULL) =>
           LET tokenData == storage'.token.encryptedToken.ciphertext.plain
           IN  /\ tokenData.mnemonic # ""
               /\ storage'.vault # NULL
               /\ storage'.vault.ciphertext.key
                      = deriveMasterKey(tokenData.mnemonic,
                                        tokenData.vaultSalt)]_vars

\* C31: totalLogs equals the number of entries over all users' logs; a
\* successful logVault appends exactly one entry, with user = caller, to
\* the caller's own log and changes or removes no existing entry of any
\* user; a logVault with a zero hash or an empty operation reverts and
\* changes nothing.
C31_AuditLogLedger ==
    /\ [](totalLogs = CountLogs(userAuditLogs, Addresses))
    /\ [][LET made == {r \in returned' : r.fn = "logVault"}
               old == userAuditLogs
               new == userAuditLogs'
           IN  /\ (new # old \/ totalLogs' # totalLogs) =>
                      \E r \in made : ~r.reverted
               /\ \A r \in made :
                      /\ r.reverted <=> (r.hash = 0 \/ r.operation = "")
                      /\ r.reverted =>
                             (new = old /\ totalLogs' = totalLogs)
                      /\ ~r.reverted =>
                             /\ Len(new[r.sender]) = Len(old[r.sender]) + 1
                             /\ SubSeq(new[r.sender], 1, Len(old[r.sender]))
                                    = old[r.sender]
                             /\ new[r.sender][Len(new[r.sender])].user
                                    = r.sender
                             /\ new[r.sender][Len(new[r.sender])].vaultHash
                                    = r.hash
                             /\ new[r.sender][Len(new[r.sender])].operation
                                    = r.operation
                             /\ \A a \in Addresses \ {r.sender} :
                                    new[a] = old[a]
                             /\ totalLogs' = totalLogs + 1]_vars

\* two accounts have logged, and a transaction with a zero hash has just
\* been reverted
C31_Witness ==
    /\ userAuditLogs["A1"] # <<>>
    /\ userAuditLogs["A2"] # <<>>
    /\ totalLogs = 2
    /\ \E r \in returned : r.fn = "logVault" /\ r.reverted /\ r.hash = 0

\* C32: uploadToIPFS and downloadFromIPFS never throw: each call ends by
\* returning a result, and every failure (backup not enabled or no JWT,
\* fetch rejected, HTTP error, body that is not JSON, invalid CID,
\* downloaded object without ciphertext or iv, storage write rejected) is
\* returned as {success: false, error}.  No upload request is sent when
\* the backup is not enabled, and the stored last-backup CID is written
\* only after a successful upload, with the cid of that upload.
IpfsProcs == {"upload", "download"}

IpfsFn(p) == IF p = "upload" THEN "uploadToIPFS" ELSE "downloadFromIPFS"

C32_IpfsFailuresReturned ==
    [][LET enabled == IPFS_CONFIG.enabled /\ IPFS_CONFIG.pinataJWT # ""
           requested == \E m \in sent' : m.to = "pinata"
           uploaded == {r \in returned' : r.fn = "uploadToIPFS"}
           downloaded == {r \in returned' : r.fn = "downloadFromIPFS"}
       IN  /\ \A p \in IpfsProcs :
                  LET results == {r \in returned' : r.fn = IpfsFn(p)}
                      ended == pc[p] # "idle" /\ pc'[p] = "idle"
                  IN  /\ ended => results # {}
                      /\ results # {} => (ended \/ pc[p] = "idle")
                      /\ \A r \in results :
                             /\ ~r.thrown
                             /\ IF r.value.success
                                THEN pc[p] \in {"up_set", "down_json"}
                                ELSE DOMAIN r.value = {"success", "error"}
           /\ requested => enabled
           /\ (pc["upload"] = "idle" /\ ~enabled) => pc'["upload"] = "idle"
           /\ storage'.ipfsLast # storage.ipfsLast =>
                  /\ pc["upload"] = "up_set"
                  /\ storage'.ipfsLast.cid = loc["upload"].cid
                  /\ \E r \in uploaded :
                         /\ r.value.success
                         /\ r.value.cid = storage'.ipfsLast.cid
           /\ \A r \in downloaded :
                  r.value.success =>
                      /\ r.value.vault.ciphertext # ""
                      /\ r.value.vault.iv # ""]_vars

\* an upload was refused because the backup had been disabled, after an
\* earlier upload had stored its cid
C32_Witness ==
    /\ storage.ipfsLast # NULL
    /\ ~IPFS_CONFIG.enabled
    /\ IPFS_CONFIG.pinataJWT # ""
    /\ \E r \in returned :
           /\ r.fn = "uploadToIPFS"
           /\ r.value = [success |-> FALSE, error |-> "IPFS not enabled"]

\* C33: when two quick-unlock invocations overlap, no PIN is evaluated
\* while pinLockoutUntil > now: the handler does not go on from the
\* result of decryptUnlockToken (to the vault, or to the count of a
\* failure) during a lockout that the other invocation has set.
C33_NoPinEvaluatedInLockout ==
    [][\A p \in QuProcs :
          (pc[p] = "qu_decrypt" /\ pc'[p] # "qu_decrypt" /\ ~restarted') =>
              ~(pinLockoutUntil > DateNow)]_vars

\* C39: a file produced by export, imported in a session that holds the
\* same master key, is decrypted successfully, and the import merges
\* exactly the exported entries whose ids are not in the vault, so that
\* no id occurs twice in vault.passwords afterwards.
C39_ImportMergesExport ==
    [][LET p == "import"
           file == loc[p].file
           exported == file.encrypted.ciphertext.plain.passwords
           merged == vault.passwords \o newPasswords(vault.passwords,
                                                     exported)
           after == vault'.passwords
       IN  (/\ pc[p] = "imp_decrypt"
            /\ pc'[p] # "imp_decrypt"
            /\ ~restarted'
            /\ masterKey # NULL
            /\ file.encrypted.ciphertext.key = masterKey) =>
               /\ \A m \in alerted' :
                      m.text # "Failed to import vault: Invalid or corrupted file"
               /\ pc'[p] # "idle" =>
                      /\ after = merged
                      /\ \A i, j \in DOMAIN after :
                             after[i].id = after[j].id => i = j]_vars

====
